---- MODULE Spec2Model ----
(***************************************************************************)
(* The turn engine of "AI Guess Who?" (src/src/hooks/useGameLogic.ts): the  *)
(* game state machine, the final-guess classification of player questions, *)
(* the AI turn with its question+analysis attempts, and the deterministic  *)
(* reconciliation of the player's Yes/No answer with the stored analysis.  *)
(*                                                                         *)
(* Texts are sequences of fragments.  A text that the code parses (a       *)
(* player question, the AI's question) is spelled character by character,  *)
(* one single-character string per element; the fixed parts of messages    *)
(* that are only displayed are kept as one fragment each.                  *)
(***************************************************************************)
EXTENDS Integers, Sequences, FiniteSets, TLC

\* null, for a winner and for a secret character
NULL == "null"
NoCharacter == [isNull |-> TRUE]

----------------------------------------------------------------------------
(* Bounds of the model                                                     *)

\* a model request is only issued while the log is shorter than this
MaxLog == 10
\* total number of model requests issued in one run of the application
MaxCalls == 4
\* longest analysis array the model returns
MaxAnalysisLen == 4
\* largest number of cards the player flips down on their own board
MaxPlayerEliminated == 1
\* number of model sessions the gateway creates in one run of the application
MaxSessions == 2
\* largest number of transcription requests pending at the same time
MaxTranscriptions == 2
\* downloadprogress events reported during one download
MaxProgressEvents == 3

----------------------------------------------------------------------------
(* Strings: String.prototype.toLowerCase, trim, and the final-guess regex  *)

UpperLetters == <<"A","B","C","D","E","F","G","H","I","J","K","L","M",
                  "N","O","P","Q","R","S","T","U","V","W","X","Y","Z">>
LowerLetters == <<"a","b","c","d","e","f","g","h","i","j","k","l","m",
                  "n","o","p","q","r","s","t","u","v","w","x","y","z">>

LowerChar(c) ==
    IF \E i \in 1..26 : UpperLetters[i] = c
    THEN LowerLetters[CHOOSE i \in 1..26 : UpperLetters[i] = c]
    ELSE c

UpperChar(c) ==
    IF \E i \in 1..26 : LowerLetters[i] = c
    THEN UpperLetters[CHOOSE i \in 1..26 : LowerLetters[i] = c]
    ELSE c

ToLowerCase(s) == [i \in 1..Len(s) |-> LowerChar(s[i])]
ToUpperCase(s) == [i \in 1..Len(s) |-> UpperChar(s[i])]

\* the characters \s matches and trim() strips; the last two are line terminators
IsLineTerminator(c) == c \in {"\n", "\r"}
IsSpace(c) == c \in {" ", "\t"} \/ IsLineTerminator(c)

\* number of whitespace characters at the start of s
LeadingSpaces(s) ==
    IF \A i \in 1..Len(s) : IsSpace(s[i]) THEN Len(s)
    ELSE (CHOOSE i \in 1..Len(s) : ~IsSpace(s[i]) /\ \A j \in 1..(i-1) : IsSpace(s[j])) - 1

TrailingSpaces(s) ==
    IF \A i \in 1..Len(s) : IsSpace(s[i]) THEN Len(s)
    ELSE Len(s) - (CHOOSE i \in 1..Len(s) : ~IsSpace(s[i]) /\ \A j \in (i+1)..Len(s) : IsSpace(s[j]))

Trim(s) ==
    IF \A i \in 1..Len(s) : IsSpace(s[i]) THEN <<>>
    ELSE SubSeq(s, LeadingSpaces(s) + 1, Len(s) - TrailingSpaces(s))

StartsWith(s, p) == Len(s) >= Len(p) /\ SubSeq(s, 1, Len(p)) = p

\* text contains sub as a contiguous run of fragments
Contains(text, sub) ==
    \E i \in 1..(Len(text) - Len(sub) + 1) : SubSeq(text, i, i + Len(sub) - 1) = sub

\* the alternatives of FINAL_GUESS_REGEX, lower case ("your?" is "your" or "you")
PrefixIsIt == <<"i","s"," ","i","t">>
PrefixIsThePerson == <<"i","s"," ","t","h","e"," ","p","e","r","s","o","n">>
PrefixIsTheCharacter == <<"i","s"," ","t","h","e"," ","c","h","a","r","a","c","t","e","r">>
PrefixIsYourCharacter == <<"i","s"," ","y","o","u","r"," ","c","h","a","r","a","c","t","e","r">>
PrefixIsYouCharacter == <<"i","s"," ","y","o","u"," ","c","h","a","r","a","c","t","e","r">>
GuessPrefixes ==
    {PrefixIsIt, PrefixIsThePerson, PrefixIsTheCharacter, PrefixIsYourCharacter, PrefixIsYouCharacter}

NoMatch == [matched |-> FALSE, group |-> <<>>]

\* s.match(/^(?:is it|is the person|is the character|is your? character)\s+(.*?)\??$/i)
\* The alternatives exclude one another.  \s+ takes the whole whitespace run
\* (giving some of it back only moves whitespace into the group, which cannot
\* repair a line terminator later in the text); the lazy group stops at the
\* first place where only an optional "?" is left, so it loses one final "?".
FinalGuessRegexMatch(s) ==
    LET low == ToLowerCase(s)
        alts == {p \in GuessPrefixes : StartsWith(low, p)}
    IN  IF alts = {} THEN NoMatch
        ELSE LET p == CHOOSE q \in alts : TRUE
                 after == SubSeq(s, Len(p) + 1, Len(s))
                 k == LeadingSpaces(after)
                 rest == SubSeq(after, k + 1, Len(after))
             IN  IF k = 0 THEN NoMatch
                 ELSE IF \E i \in 1..Len(rest) : IsLineTerminator(rest[i]) THEN NoMatch
                 ELSE IF Len(rest) > 0 /\ rest[Len(rest)] = "?"
                      THEN [matched |-> TRUE, group |-> SubSeq(rest, 1, Len(rest) - 1)]
                      ELSE [matched |-> TRUE, group |-> rest]

----------------------------------------------------------------------------
(* Characters and rosters                                                  *)

Alex == <<"A","l","e","x">>
Bella == <<"B","e","l","l","a">>
Cid == <<"C","i","d">>
Dana == <<"D","a","n","a">>
Eli == <<"E","l","i">>
\* names typed into the prompt() of the custom set-up are kept as typed
NameWho == <<"W","h","o","?">>
NameBoSpace == <<"B","o"," ">>
NameBlank == <<" ">>
\* a name no character carries
Zed == <<"Z","e","d">>

Character(id, name, blob) == [id |-> id, name |-> name, imageBlob |-> blob]

CharAlex == Character("Alex", Alex, TRUE)
CharBella == Character("Bella", Bella, TRUE)
CharCid == Character("Cid", Cid, TRUE)
CharDana == Character("Dana", Dana, TRUE)
CharEli == Character("Eli", Eli, TRUE)
CharWho == Character("custom_1", NameWho, TRUE)
CharBo == Character("custom_2", NameBoSpace, TRUE)
CharBlank == Character("custom_3", NameBlank, TRUE)
\* a default character whose image could not be fetched
CharAlexNoBlob == Character("Alex", Alex, FALSE)

ScenarioRoster == <<CharAlex, CharBella, CharCid, CharDana, CharEli>>
RosterCidDana == <<CharCid, CharDana>>
RosterCustom == <<CharWho, CharBo>>
RosterBlank == <<CharWho, CharBlank>>
RosterNoBlob == <<CharAlexNoBlob, CharBella>>
RosterTrio == <<CharWho, CharBo, CharBlank>>

\* the character sets startGame is called with
Rosters == {RosterCidDana, RosterNoBlob}
GuessRosters == {ScenarioRoster, RosterCustom}
FinalRosters == {RosterCidDana, RosterCustom, RosterBlank}
HonestRosters == {RosterCidDana, RosterTrio}

\* an id the model may report although no candidate carries it
ForeignId == "Zed"

Ids(chars) == {chars[i].id : i \in 1..Len(chars)}

----------------------------------------------------------------------------
(* Message texts                                                           *)

Message(sender, text) == [sender |-> sender, text |-> text]

TextNewGame(name) ==
    <<"New game started. You drew ">> \o name \o <<". It's your turn to ask a question.">>
TextEliminatePrompt == <<"You can now eliminate characters. Click 'End Turn' when ready.">>
TextApology == <<"Sorry, I had trouble answering. Please try again.">>
TextYesItIs(name) == <<"Yes, it is ">> \o name \o <<"!">>
TextNoItIsNot(guessed) == <<"No, it is not ">> \o guessed \o <<".">>
TextGuessedWrong(name) == <<"You guessed incorrectly! The secret character was ">> \o name \o <<".">>
ReasonGuessedRight(name) == <<"You correctly guessed the character was ">> \o name \o <<".">>
ReasonGuessedWrong(name) == <<"You guessed incorrectly. The secret character was ">> \o name \o <<".">>
TextThinking == <<"AI is thinking of a question...">>
TextReview ==
    <<"Here is how the AI analyzed the remaining characters. Review its work, then click 'Continue' to provide your answer.">>
TextYourTurnToAnswer == <<"It's your turn to answer.">>
TextConcede == <<"The AI is having trouble thinking. Your turn!">>
TextConfused == <<"The AI got confused and almost eliminated everyone! No one was eliminated.">>
TextNoneEliminated == <<"AI did not eliminate anyone based on that answer.">>
ReasonAICorrect(name) == <<"It correctly guessed your character was ">> \o name \o <<".">>
ReasonAIWrong(guessed) == <<"The AI guessed ">> \o guessed \o <<" incorrectly! You win!">>
ReasonMismatch(name) ==
    <<"There was a mismatch in the final guess. Your card was ">> \o name \o <<". The AI wins.">>
ReasonWipedOut == <<"The AI eliminated all its characters by mistake! You win!">>
ReasonNoCandidates == <<"The AI ran out of characters to guess from!">>

\* a final-guess question without the question mark
FinalGuessQuestionNoMark(name) ==
    <<"I","s"," ","y","o","u","r"," ","c","h","a","r","a","c","t","e","r"," ">> \o name

\* const guess = `Is your character ${aiRemainingChars[0].name}?`
FinalGuessQuestion(name) ==
    <<"I","s"," ","y","o","u","r"," ","c","h","a","r","a","c","t","e","r"," ">> \o name \o <<"?">>

\* names.join(", ")
RECURSIVE JoinNames(_)
JoinNames(names) ==
    IF Len(names) = 0 THEN <<>>
    ELSE IF Len(names) = 1 THEN names[1]
    ELSE names[1] \o <<", ">> \o JoinNames(Tail(names))

TextEliminated(names) == <<"AI eliminated: ">> \o JoinNames(names) \o <<".">>

\* let retryReason = undefined
RetryNone == <<>>
RetryNonDiscriminating ==
    <<"The last question you asked was invalid because it did not eliminate any characters. You must ask a question that splits the remaining characters.">>
RetryModelError(message) ==
    <<"The last attempt failed with an error: ", message,
      ". Please try generating a completely different question.">>

\* the messages of the errors an attempt ends with: the handler's own for a
\* degenerate analysis, and the timeout's for a failed call
ErrorNonDiscriminatory == "AI generated a non-discriminatory question."
ErrorTimedOut == "Operation timed out after 30000 ms"
ThrownMessages == {ErrorNonDiscriminatory, ErrorTimedOut}

----------------------------------------------------------------------------
(* State                                                                   *)

VARIABLES
    gameState,              \* GameState
    activeCharacters,       \* Character[]
    playerSecret,           \* Character | null
    aiSecret,               \* Character | null
    messages,               \* Message[]
    winner,                 \* "PLAYER" | "AI" | null
    winReason,              \* string
    isLoading,              \* the shared busy flag
    playerEliminatedChars,  \* Set<string> of ids
    aiRemainingChars,       \* Character[]
    lastAIQuestion,         \* string
    lastAIAnalysis,         \* EliminationAnalysisResult[]
    isAIFinalGuess,         \* boolean
    aiStatus,               \* AIStatus
    isReviewModeEnabled,    \* boolean
    session,                \* the gateway's session: "none", "live" or "destroyed"
    model,                  \* the gateway holds the model entry point
    pc,                     \* the handler suspended at an await, if any
    modelCalls,             \* number of session.prompt() requests issued so far
    sessionId,              \* which session object the gateway holds: the number created so far
    isRecording,            \* useSpeechToText: the microphone is recording
    transcribing,           \* number of transcribeAudio() requests not yet settled
    prompts,                \* the promiseWithTimeout() calls made so far, in order
    progressReports,        \* values passed to onProgress since downloadProgress was null
    storedReviewMode        \* localStorage item "ai-guess-who-review-mode", or nothing

vars == <<gameState, activeCharacters, playerSecret, aiSecret, messages, winner, winReason,
          isLoading, playerEliminatedChars, aiRemainingChars, lastAIQuestion, lastAIAnalysis,
          isAIFinalGuess, aiStatus, isReviewModeEnabled, session, model, pc, modelCalls,
          sessionId, isRecording, transcribing, prompts, progressReports,
          storedReviewMode>>

gameVars == <<activeCharacters, playerSecret, aiSecret, messages, winner, winReason,
              playerEliminatedChars, aiRemainingChars, lastAIQuestion, lastAIAnalysis,
              isAIFinalGuess>>
gatewayVars == <<aiStatus, session, model, sessionId>>
voiceVars == <<isRecording, transcribing>>
serviceVars == <<prompts, progressReports>>
storageVars == <<storedReviewMode>>

Idle == [kind |-> "idle"]

\* localStorage.getItem returns null for a key that was never written
NothingStored == [isNull |-> TRUE]

StoredText(text) == [isNull |-> FALSE, text |-> text]

\* what the item can hold: nothing, what the application wrote, the empty
\* string, or text that is not JSON
StoredValues ==
    {NothingStored, StoredText(<<"true">>), StoredText(<<"false">>), StoredText(<<>>),
     StoredText(<<"{">>)}

\* what a returning visitor finds: the text the last visit wrote (the first
\* visit and unreadable items are start states of InitSettings)
StoredByLastVisit == {StoredText(<<"true">>), StoredText(<<"false">>)}

\* a setting that is written as the same text whatever its value
StringifyConstant(isEnabled) == <<"true">>

\* JSON.stringify(isEnabled)
Stringify(isEnabled) == IF isEnabled THEN <<"true">> ELSE <<"false">>

\* the initializer of isReviewModeEnabled: storedValue ? JSON.parse(storedValue) : true,
\* and true when reading or parsing throws
ReadReviewMode(storedValue) ==
    IF storedValue.isNull THEN TRUE
    ELSE IF storedValue.text = <<>> THEN TRUE
    ELSE IF storedValue.text = <<"true">> THEN TRUE
    ELSE IF storedValue.text = <<"false">> THEN FALSE
    ELSE TRUE

Init ==
    /\ gameState = "SETUP"
    /\ activeCharacters = <<>>
    /\ playerSecret = NoCharacter
    /\ aiSecret = NoCharacter
    /\ messages = <<>>
    /\ winner = NULL
    /\ winReason = <<>>
    /\ isLoading = FALSE
    /\ playerEliminatedChars = {}
    /\ aiRemainingChars = <<>>
    /\ lastAIQuestion = <<>>
    /\ lastAIAnalysis = <<>>
    /\ isAIFinalGuess = FALSE
    /\ aiStatus = "INITIALIZING"
    /\ storedReviewMode \in StoredByLastVisit
    /\ isReviewModeEnabled = ReadReviewMode(storedReviewMode)
    /\ session = "none"
    /\ model = FALSE
    /\ pc = Idle
    /\ modelCalls = 0
    /\ sessionId = 0
    /\ isRecording = FALSE
    /\ transcribing = 0
    /\ prompts = <<>>
    /\ progressReports = <<>>

----------------------------------------------------------------------------
(* Model gateway                                                           *)

InitOutcomes == {"absent", "available", "downloadable", "unsupported", "error"}

\* a session that is handed on instead of being created anew
NextSessionIdReused(old, created) == old

\* session = await model.create(createOptions): a new session object
NextSessionId(old, created) == IF created THEN old + 1 ELSE old

\* a gateway that offers the download whatever the availability
StatusReportedOptimistic(outcome) ==
    CASE outcome = "absent" -> "UNAVAILABLE"
      [] outcome = "available" -> "READY"
      [] outcome = "downloadable" -> "DOWNLOADABLE"
      [] outcome = "unsupported" -> "DOWNLOADABLE"
      [] outcome = "error" -> "ERROR"

\* the status initialize() passes to onStatusChange last
StatusReported(outcome) ==
    CASE outcome = "absent" -> "UNAVAILABLE"
      [] outcome = "available" -> "READY"
      [] outcome = "downloadable" -> "DOWNLOADABLE"
      [] outcome = "unsupported" -> "UNAVAILABLE"
      [] outcome = "error" -> "ERROR"

\* initialize(): runs on mount and again from resetGame after a failure
InitializeAI(outcome) ==
    /\ aiStatus = "INITIALIZING"
    /\ LET created == ~(model /\ session # "none") /\ outcome = "available"
       IN  /\ created => sessionId < MaxSessions
           /\ sessionId' = NextSessionId(sessionId, created)
    /\ IF model /\ session # "none"
       THEN /\ aiStatus' = "READY"
            /\ UNCHANGED <<session, model>>
       ELSE /\ aiStatus' = StatusReported(outcome)
            /\ CASE outcome = "absent" ->
                    /\ model' = FALSE
                    /\ UNCHANGED session
              [] outcome = "available" ->
                    /\ model' = TRUE
                    /\ session' = "live"
              [] outcome = "downloadable" ->
                    /\ model' = TRUE
                    /\ UNCHANGED session
              [] outcome = "unsupported" ->
                    /\ model' = TRUE
                    /\ UNCHANGED session
              [] outcome = "error" ->
                    /\ model' = FALSE
                    /\ session' = "none"
    /\ UNCHANGED <<gameState, gameVars, isLoading, isReviewModeEnabled, pc, modelCalls>>
    /\ UNCHANGED <<voiceVars, storageVars, serviceVars>>

\* the session after startNewGameSession(): the old one is destroyed first
SessionAfterRestart(old, createOk) ==
    IF createOk THEN "live"
    ELSE IF old = "none" THEN "none" ELSE "destroyed"

----------------------------------------------------------------------------
(* Set-up screen                                                           *)

\* handleSetReviewMode(isEnabled); setItemOk is false when localStorage.setItem
\* throws, which the handler catches and logs
HandleSetReviewMode(isEnabled, setItemOk) ==
    /\ gameState = "SETUP"
    /\ aiStatus = "READY"
    /\ isReviewModeEnabled' = isEnabled
    /\ storedReviewMode' = IF setItemOk THEN StoredText(Stringify(isEnabled))
                           ELSE storedReviewMode
    /\ UNCHANGED <<gameState, gameVars, gatewayVars, isLoading, pc, modelCalls>>
    /\ UNCHANGED <<voiceVars, serviceVars>>

EnterCustomSetup ==
    /\ gameState = "SETUP"
    /\ aiStatus = "READY"
    /\ ~isLoading
    /\ gameState' = "CUSTOM_SETUP"
    /\ UNCHANGED <<gameVars, gatewayVars, isLoading, isReviewModeEnabled, pc, modelCalls>>
    /\ UNCHANGED <<voiceVars, storageVars, serviceVars>>

LeaveCustomSetup ==
    /\ gameState = "CUSTOM_SETUP"
    /\ gameState' = "SETUP"
    /\ UNCHANGED <<gameVars, gatewayVars, isLoading, isReviewModeEnabled, pc, modelCalls>>
    /\ UNCHANGED <<voiceVars, storageVars, serviceVars>>

\* Math.floor(Math.random() * n), 1-based
DrawIndex(n) == 1..n

\* a drawing loop that accepts its first draw
DrawAIIndexNoRedraw(n, playerIndex) == 1..n

\* do { aiIndex = random } while (aiIndex === playerIndex)
DrawAIIndex(n, playerIndex) == {i \in 1..n : i # playerIndex}

\* a start that leaves the candidates of the last game in place
InitialCandidatesStale(characterSet) == aiRemainingChars

\* a start that gives the AI no candidates
InitialCandidatesNone(characterSet) == <<>>

\* setAiRemainingChars(characterSet)
InitialCandidates(characterSet) == characterSet

\* a check that lets every roster pass
MissingBlobNever(characterSet) == FALSE

\* characterSet.some((c) => !c.imageBlob)
MissingBlob(characterSet) == \E i \in 1..Len(characterSet) : ~characterSet[i].imageBlob

\* startGame from its first line to its last, the busy flag apart
StartGameOutcome(characterSet, playerIndex, aiIndex, createOk) ==
    /\ playerIndex \in DrawIndex(Len(characterSet))
    /\ aiIndex \in DrawAIIndex(Len(characterSet), playerIndex)
    /\ IF MissingBlob(characterSet)
       THEN /\ aiStatus' = "ERROR"
            /\ gameState' = "SETUP"
            /\ UNCHANGED <<gameVars, session, model, sessionId>>
       ELSE /\ session' = SessionAfterRestart(session, createOk)
            /\ (model /\ createOk) => sessionId < MaxSessions
            /\ sessionId' = NextSessionId(sessionId, model /\ createOk)
            /\ UNCHANGED model
            /\ IF ~model \/ ~createOk
               THEN /\ aiStatus' = "ERROR"
                    /\ gameState' = "SETUP"
                    /\ UNCHANGED gameVars
               ELSE /\ activeCharacters' = characterSet
                    /\ aiRemainingChars' = InitialCandidates(characterSet)
                    /\ playerEliminatedChars' = {}
                    /\ playerSecret' = characterSet[playerIndex]
                    /\ aiSecret' = characterSet[aiIndex]
                    /\ messages' = <<Message("SYSTEM", TextNewGame(characterSet[playerIndex].name))>>
                    /\ winner' = NULL
                    /\ winReason' = <<>>
                    /\ isAIFinalGuess' = FALSE
                    /\ gameState' = "PLAYER_TURN_ASKING"
                    /\ UNCHANGED <<aiStatus, lastAIQuestion, lastAIAnalysis>>
    /\ UNCHANGED <<isReviewModeEnabled, modelCalls>>
    /\ UNCHANGED <<voiceVars, storageVars, serviceVars>>

\* a start of the game, from the click to the first turn
StartGame(characterSet, playerIndex, aiIndex, createOk) ==
    /\ gameState \in {"SETUP", "CUSTOM_SETUP"}
    /\ aiStatus = "READY"
    /\ ~isLoading
    /\ pc = Idle
    /\ StartGameOutcome(characterSet, playerIndex, aiIndex, createOk)
    /\ UNCHANGED <<isLoading, pc>>

\* resetGame(): "play again"
ResetGame ==
    /\ gameState = "GAME_OVER"
    /\ winner # NULL
    /\ pc = Idle
    /\ gameState' = "SETUP"
    /\ activeCharacters' = <<>>
    /\ playerSecret' = NoCharacter
    /\ aiSecret' = NoCharacter
    /\ messages' = <<>>
    /\ lastAIAnalysis' = <<>>
    /\ isAIFinalGuess' = FALSE
    /\ aiStatus' = IF aiStatus \in {"ERROR", "UNAVAILABLE"} THEN "INITIALIZING" ELSE aiStatus
    /\ UNCHANGED <<winner, winReason, playerEliminatedChars, aiRemainingChars, lastAIQuestion,
                   session, model, sessionId, isLoading, isReviewModeEnabled, pc,
                   modelCalls>>
    /\ UNCHANGED <<voiceVars, storageVars, prompts>>
    /\ progressReports' = <<>>

----------------------------------------------------------------------------
(* Player turn                                                             *)

\* activeCharacters.some((char) => char.name.toLowerCase() === guessedName.toLowerCase())
IsActualGuess(chars, guessedName) ==
    \E i \in 1..Len(chars) : ToLowerCase(chars[i].name) = ToLowerCase(guessedName)

\* a comparison that never succeeds
GuessIsCorrectNever(guessedName, secretName) == FALSE

\* a comparison that minds the letter case
GuessIsCorrectExact(guessedName, secretName) == guessedName = secretName

\* guessedName.toLowerCase() === aiSecret.name.toLowerCase()
GuessIsCorrect(guessedName, secretName) == ToLowerCase(guessedName) = ToLowerCase(secretName)

\* a loss reason that keeps the secret to itself
ReasonPlayerLostSilent(secretName) == <<"You guessed incorrectly.">>

\* setWinReason(`You guessed incorrectly. The secret character was ${aiSecret.name}.`)
ReasonPlayerLost(secretName) == ReasonGuessedWrong(secretName)

\* the classification of a submitted question: the guessed name when the text is
\* a final guess at an active character, and whether it is one
ClassifyQuestion(chars, question) ==
    LET guessMatch == FinalGuessRegexMatch(Trim(question))
        guessedName == Trim(guessMatch.group)
    IN  [isGuess |-> guessMatch.matched /\ IsActualGuess(chars, guessedName),
         guessedName |-> guessedName]

\* handlePlayerQuestion up to its await (or to its end, for a final guess)
HandlePlayerQuestion(question) ==
    /\ gameState = "PLAYER_TURN_ASKING"
    /\ ~isLoading
    /\ ~isRecording
    /\ pc = Idle
    /\ Trim(question) # <<>>
    /\ aiSecret # NoCharacter
    /\ \E cls \in {ClassifyQuestion(activeCharacters, question)} :
       /\ cls.isGuess \/ (Len(messages) < MaxLog /\ modelCalls < MaxCalls)
       /\ LET asked == Append(messages, Message("PLAYER", question)) IN
           IF cls.isGuess
           THEN /\ IF GuessIsCorrect(cls.guessedName, aiSecret.name)
                   THEN /\ messages' = Append(asked, Message("AI", TextYesItIs(aiSecret.name)))
                        /\ winner' = "PLAYER"
                        /\ winReason' = ReasonGuessedRight(aiSecret.name)
                   ELSE /\ messages' = asked \o
                               <<Message("AI", TextNoItIsNot(cls.guessedName)),
                                 Message("SYSTEM", TextGuessedWrong(aiSecret.name))>>
                        /\ winner' = "AI"
                        /\ winReason' = ReasonPlayerLost(aiSecret.name)
                /\ gameState' = "GAME_OVER"
                /\ UNCHANGED <<isLoading, pc, modelCalls>>
           ELSE /\ messages' = asked
                /\ isLoading' = TRUE
                /\ pc' = [kind |-> "playerQuestion"]
                /\ modelCalls' = modelCalls + 1
                /\ UNCHANGED <<gameState, winner, winReason>>
    /\ UNCHANGED <<activeCharacters, playerSecret, aiSecret, playerEliminatedChars,
                   aiRemainingChars, lastAIQuestion, lastAIAnalysis, isAIFinalGuess,
                   gatewayVars, isReviewModeEnabled>>
    /\ UNCHANGED <<voiceVars, storageVars, serviceVars>>

\* what getAnswerToPlayerQuestion settles with: an answer, or a failure (a
\* missing session, a timeout, output that does not parse)
AnswerOutcomes == {"Yes", "No", "fail"}

\* a failure that is swallowed without a word to the player
PlayerQuestionSettlesSilent(outcome) ==
    /\ pc.kind = "playerQuestion"
    /\ IF outcome = "fail"
       THEN UNCHANGED <<messages, gameState>>
       ELSE /\ messages' = messages \o
                   <<Message("AI", <<outcome>>), Message("SYSTEM", TextEliminatePrompt)>>
            /\ gameState' = "PLAYER_TURN_ELIMINATING"
    /\ isLoading' = FALSE
    /\ pc' = Idle
    /\ UNCHANGED <<activeCharacters, playerSecret, aiSecret, winner, winReason,
                   playerEliminatedChars, aiRemainingChars, lastAIQuestion, lastAIAnalysis,
                   isAIFinalGuess, gatewayVars, isReviewModeEnabled, modelCalls>>
    /\ UNCHANGED <<voiceVars, storageVars, serviceVars>>

\* handleAsNormalQuestion after its await
PlayerQuestionSettles(outcome) ==
    /\ pc.kind = "playerQuestion"
    /\ IF outcome = "fail"
       THEN /\ messages' = Append(messages, Message("SYSTEM", TextApology))
            /\ UNCHANGED gameState
       ELSE /\ messages' = messages \o
                   <<Message("AI", <<outcome>>), Message("SYSTEM", TextEliminatePrompt)>>
            /\ gameState' = "PLAYER_TURN_ELIMINATING"
    /\ isLoading' = FALSE
    /\ pc' = Idle
    /\ UNCHANGED <<activeCharacters, playerSecret, aiSecret, winner, winReason,
                   playerEliminatedChars, aiRemainingChars, lastAIQuestion, lastAIAnalysis,
                   isAIFinalGuess, gatewayVars, isReviewModeEnabled, modelCalls>>
    /\ UNCHANGED <<voiceVars, storageVars, serviceVars>>

\* a click that only ever eliminates
ToggleOwnEliminationAddOnly(prev, id) == prev \cup {id}

\* the updater passed to setPlayerEliminatedChars: a copy of prev with id
\* deleted when present and added when absent
ToggleOwnElimination(prev, id) ==
    IF id \in prev THEN prev \ {id} ELSE prev \cup {id}

\* onCardClick(id) on the player's own board
ToggleElimination(id) ==
    /\ gameState = "PLAYER_TURN_ELIMINATING"
    /\ id \in Ids(activeCharacters)
    /\ id \in playerEliminatedChars \/ Cardinality(playerEliminatedChars) < MaxPlayerEliminated
    /\ playerEliminatedChars' = ToggleOwnElimination(playerEliminatedChars, id)
    /\ UNCHANGED <<gameState, activeCharacters, playerSecret, aiSecret, messages, winner,
                   winReason, aiRemainingChars, lastAIQuestion, lastAIAnalysis, isAIFinalGuess,
                   gatewayVars, isLoading, isReviewModeEnabled, pc, modelCalls>>
    /\ UNCHANGED <<voiceVars, storageVars, serviceVars>>

\* an end of turn that starts the log afresh
HandleEndTurnFreshLog ==
    /\ gameState = "PLAYER_TURN_ELIMINATING"
    /\ ~isLoading
    /\ messages' = <<Message("SYSTEM", TextThinking)>>
    /\ gameState' = "AI_TURN"
    /\ UNCHANGED <<activeCharacters, playerSecret, aiSecret, winner, winReason,
                   playerEliminatedChars, aiRemainingChars, lastAIQuestion, lastAIAnalysis,
                   isAIFinalGuess, gatewayVars, isLoading, isReviewModeEnabled, pc, modelCalls>>
    /\ UNCHANGED <<voiceVars, storageVars, serviceVars>>

\* an end of turn that hands the turn straight back to the player
HandleEndTurnSkipsAI ==
    /\ gameState = "PLAYER_TURN_ELIMINATING"
    /\ ~isLoading
    /\ messages' = Append(messages, Message("SYSTEM", TextThinking))
    /\ gameState' = "PLAYER_TURN_ASKING"
    /\ UNCHANGED <<activeCharacters, playerSecret, aiSecret, winner, winReason,
                   playerEliminatedChars, aiRemainingChars, lastAIQuestion, lastAIAnalysis,
                   isAIFinalGuess, gatewayVars, isLoading, isReviewModeEnabled, pc, modelCalls>>
    /\ UNCHANGED <<voiceVars, storageVars, serviceVars>>

\* handleEndTurn()
HandleEndTurn ==
    /\ gameState = "PLAYER_TURN_ELIMINATING"
    /\ ~isLoading
    /\ messages' = Append(messages, Message("SYSTEM", TextThinking))
    /\ gameState' = "AI_TURN"
    /\ UNCHANGED <<activeCharacters, playerSecret, aiSecret, winner, winReason,
                   playerEliminatedChars, aiRemainingChars, lastAIQuestion, lastAIAnalysis,
                   isAIFinalGuess, gatewayVars, isLoading, isReviewModeEnabled, pc, modelCalls>>
    /\ UNCHANGED <<voiceVars, storageVars, serviceVars>>

----------------------------------------------------------------------------
(* AI turn                                                                 *)

MAX_AI_RETRIES == 3

\* the questions the model phrases (the empty string satisfies the schema too)
ModelQuestion == <<"Does your character wear glasses?">>
ModelQuestions == {ModelQuestion, <<>>}

Entry(id, hasFeature) == [id |-> id, has_feature |-> hasFeature]

\* every entry the model may report for these candidates, in a fixed order
EntryList(cands) ==
    LET ids == [i \in 1..(Len(cands) + 1) |->
                    IF i <= Len(cands) THEN cands[i].id ELSE ForeignId]
    IN  [j \in 1..(2 * Len(ids)) |-> Entry(ids[(j + 1) \div 2], j % 2 = 1)]

\* the analysis arrays the model may return: no validation constrains which
\* ids it names, how many entries it gives, or whether an id repeats
AnalysisInputs(cands) ==
    LET all == EntryList(cands)
    IN  {SelectSeq(all, LAMBDA e : e \in S) :
            S \in {T \in SUBSET {all[j] : j \in 1..Len(all)} : Cardinality(T) <= MaxAnalysisLen}}

\* analysis.filter((res) => res.has_feature).length
PositiveFeatures(analysis) == Len(SelectSeq(analysis, LAMBDA res : res.has_feature))

\* a check that lets every analysis pass
NonDiscriminatingNever(analysis) == FALSE

\* a check that rejects only the analyses without any positive entry
NonDiscriminatingLax(analysis) == PositiveFeatures(analysis) = 0

\* positiveFeatures === 0 || positiveFeatures === analysis.length
NonDiscriminating(analysis) ==
    PositiveFeatures(analysis) = 0 \/ PositiveFeatures(analysis) = Len(analysis)

\* the effect body of handleAITurn up to its first await (or to its return)
AITurnStart ==
    /\ gameState = "AI_TURN"
    /\ pc = Idle
    /\ IF Len(aiRemainingChars) = 1
       THEN /\ lastAIQuestion' = FinalGuessQuestion(aiRemainingChars[1].name)
            /\ isAIFinalGuess' = TRUE
            /\ messages' = Append(messages, Message("AI", FinalGuessQuestion(aiRemainingChars[1].name)))
            /\ gameState' = "AI_TURN_WAITING_FOR_ANSWER"
            /\ isLoading' = FALSE
            /\ UNCHANGED <<winner, winReason, pc, modelCalls>>
       ELSE IF Len(aiRemainingChars) = 0
       THEN /\ winner' = "PLAYER"
            /\ winReason' = ReasonNoCandidates
            /\ gameState' = "GAME_OVER"
            /\ isAIFinalGuess' = FALSE
            /\ isLoading' = FALSE
            /\ UNCHANGED <<lastAIQuestion, messages, pc, modelCalls>>
       ELSE /\ Len(messages) < MaxLog
            /\ modelCalls < MaxCalls
            /\ isAIFinalGuess' = FALSE
            /\ isLoading' = TRUE
            /\ pc' = [kind |-> "aiAttempt", attempt |-> 1, retryReason |-> RetryNone]
            /\ modelCalls' = modelCalls + 1
            /\ UNCHANGED <<lastAIQuestion, messages, gameState, winner, winReason>>
    /\ UNCHANGED <<activeCharacters, playerSecret, aiSecret, playerEliminatedChars,
                   aiRemainingChars, lastAIAnalysis, gatewayVars, isReviewModeEnabled>>
    /\ UNCHANGED <<voiceVars, storageVars, serviceVars>>

\* an engine that never shows the analysis
StateAfterQuestionNoReview(isEnabled) == "AI_TURN_WAITING_FOR_ANSWER"

\* the state set after a stored question: the review of the analysis when review
\* mode is on, the player's answer otherwise
StateAfterQuestion(isEnabled) ==
    IF isEnabled THEN "PLAYER_REVIEWING_AI_ANALYSIS" ELSE "AI_TURN_WAITING_FOR_ANSWER"

\* one attempt of the retry loop settles with a schema-conforming response
AIAttemptSucceeds(question, analysis) ==
    /\ pc.kind = "aiAttempt"
    /\ question \in ModelQuestions
    /\ analysis \in AnalysisInputs(aiRemainingChars)
    /\ ~NonDiscriminating(analysis)
    /\ lastAIQuestion' = question
    /\ lastAIAnalysis' = analysis
    /\ messages' = messages \o
           <<Message("AI", question),
             Message("SYSTEM", IF isReviewModeEnabled THEN TextReview ELSE TextYourTurnToAnswer)>>
    /\ gameState' = StateAfterQuestion(isReviewModeEnabled)
    /\ isLoading' = FALSE
    /\ pc' = Idle
    /\ UNCHANGED <<activeCharacters, playerSecret, aiSecret, winner, winReason,
                   playerEliminatedChars, aiRemainingChars, isAIFinalGuess, gatewayVars,
                   isReviewModeEnabled, modelCalls>>
    /\ UNCHANGED <<voiceVars, storageVars, serviceVars>>

\* a loop that never tells the model what went wrong
RetryReasonKept(previous, message) == previous

\* retryReason when the catch block is done: set before the throw for a
\* degenerate analysis, and from the message of any other error
RetryReasonAfter(previous, message) ==
    LET beforeThrow == IF message = ErrorNonDiscriminatory THEN RetryNonDiscriminating
                       ELSE previous
    IN  IF message # ErrorNonDiscriminatory THEN RetryModelError(message) ELSE beforeThrow

\* a loop whose last failure ends the handler without ending the turn
AIAttemptFailsKeepsTurn(message) ==
    /\ pc.kind = "aiAttempt"
    /\ message \in {"AI generated a non-discriminatory question.",
                    "Operation timed out after 30000 ms"}
    /\ IF pc.attempt = 3
       THEN /\ messages' = Append(messages, Message("SYSTEM", TextConcede))
            /\ isLoading' = FALSE
            /\ pc' = Idle
            /\ UNCHANGED <<gameState, modelCalls>>
       ELSE /\ modelCalls < MaxCalls
            /\ pc' = [pc EXCEPT !.attempt = pc.attempt + 1]
            /\ modelCalls' = modelCalls + 1
            /\ UNCHANGED <<messages, gameState, isLoading>>
    /\ UNCHANGED <<activeCharacters, playerSecret, aiSecret, winner, winReason,
                   playerEliminatedChars, aiRemainingChars, lastAIQuestion, lastAIAnalysis,
                   isAIFinalGuess, gatewayVars, isReviewModeEnabled>>
    /\ UNCHANGED <<voiceVars, storageVars, serviceVars>>

\* one attempt fails: the analysis does not discriminate, or the call threw
\* (timeout, missing session, output that does not parse)
AIAttemptFails(message) ==
    /\ pc.kind = "aiAttempt"
    /\ message \in ThrownMessages
    /\ message = ErrorNonDiscriminatory =>
           \E analysis \in AnalysisInputs(aiRemainingChars) : NonDiscriminating(analysis)
    /\ IF pc.attempt = MAX_AI_RETRIES
       THEN /\ messages' = Append(messages, Message("SYSTEM", TextConcede))
            /\ gameState' = "PLAYER_TURN_ASKING"
            /\ isLoading' = FALSE
            /\ pc' = Idle
            /\ UNCHANGED modelCalls
       ELSE /\ modelCalls < MaxCalls
            /\ pc' = [pc EXCEPT !.attempt = pc.attempt + 1, !.retryReason = RetryReasonAfter(pc.retryReason, message)]
            /\ modelCalls' = modelCalls + 1
            /\ UNCHANGED <<messages, gameState, isLoading>>
    /\ UNCHANGED <<activeCharacters, playerSecret, aiSecret, winner, winReason,
                   playerEliminatedChars, aiRemainingChars, lastAIQuestion, lastAIAnalysis,
                   isAIFinalGuess, gatewayVars, isReviewModeEnabled>>
    /\ UNCHANGED <<voiceVars, storageVars, serviceVars>>

\* a confirmation that throws the reviewed analysis away
HandleConfirmDropsAnalysis ==
    /\ gameState = "PLAYER_REVIEWING_AI_ANALYSIS"
    /\ gameState' = "AI_TURN_WAITING_FOR_ANSWER"
    /\ lastAIAnalysis' = <<>>
    /\ UNCHANGED <<activeCharacters, playerSecret, aiSecret, messages, winner, winReason,
                   playerEliminatedChars, aiRemainingChars, lastAIQuestion, isAIFinalGuess,
                   gatewayVars, isLoading, isReviewModeEnabled, pc, modelCalls>>
    /\ UNCHANGED <<voiceVars, storageVars, serviceVars>>

\* handleConfirmAIAnalysis()
HandleConfirmAIAnalysis ==
    /\ gameState = "PLAYER_REVIEWING_AI_ANALYSIS"
    /\ gameState' = "AI_TURN_WAITING_FOR_ANSWER"
    /\ UNCHANGED <<gameVars, gatewayVars, isLoading, isReviewModeEnabled, pc, modelCalls>>
    /\ UNCHANGED <<voiceVars, storageVars, serviceVars>>

----------------------------------------------------------------------------
(* The player's answer and the reconciliation                              *)

\* the elimination with the two answers exchanged
EliminatedIdsSwapped(analysis, answer) ==
    {analysis[i].id : i \in {j \in 1..Len(analysis) : analysis[j].has_feature = (answer = "Yes")}}

\* "Yes" eliminates the entries without the feature, "No" those with it
EliminatedIds(analysis, answer) ==
    {analysis[i].id : i \in {j \in 1..Len(analysis) : analysis[j].has_feature = (answer = "No")}}

\* eliminatedIds.size === aiRemainingChars.length && aiRemainingChars.length > 0
SafetyTrips(eliminatedIds, remaining) ==
    Cardinality(eliminatedIds) = Len(remaining) /\ Len(remaining) > 0

\* a filter with its test the wrong way round
KeepRemainingInverted(remaining, eliminatedIds) ==
    SelectSeq(remaining, LAMBDA c : c.id \in eliminatedIds)

\* aiRemainingChars.filter((c) => !eliminatedIds.has(c.id))
KeepRemaining(remaining, eliminatedIds) ==
    SelectSeq(remaining, LAMBDA c : c.id \notin eliminatedIds)

\* aiRemainingChars.filter((c) => eliminatedIds.has(c.id)).map((c) => c.name)
EliminatedNames(remaining, eliminatedIds) ==
    LET gone == SelectSeq(remaining, LAMBDA c : c.id \in eliminatedIds)
    IN  [i \in 1..Len(gone) |-> gone[i].name]

\* the name the final-guess branch reads back out of lastAIQuestion
GuessedNameOf(question) ==
    LET guessMatch == FinalGuessRegexMatch(Trim(question))
    IN  IF guessMatch.matched THEN Trim(guessMatch.group) ELSE <<>>

\* handlePlayerAnswer up to its await (or to its return, for a final guess)
HandlePlayerAnswer(answer) ==
    /\ gameState = "AI_TURN_WAITING_FOR_ANSWER"
    /\ ~isLoading
    /\ pc = Idle
    /\ lastAIQuestion # <<>>
    /\ playerSecret # NoCharacter
    /\ \E guessedName \in {GuessedNameOf(lastAIQuestion)} :
           /\ messages' = Append(messages, Message("PLAYER", <<answer>>))
           /\ IF isAIFinalGuess /\ guessedName # <<>>
              THEN LET isCorrectGuess == GuessIsCorrect(guessedName, playerSecret.name)
                   IN  /\ IF isCorrectGuess /\ answer = "Yes"
                          THEN /\ winner' = "AI"
                               /\ winReason' = ReasonAICorrect(playerSecret.name)
                          ELSE IF ~isCorrectGuess /\ answer = "No"
                          THEN /\ winner' = "PLAYER"
                               /\ winReason' = ReasonAIWrong(guessedName)
                          ELSE /\ winner' = "AI"
                               /\ winReason' = ReasonMismatch(playerSecret.name)
                       /\ gameState' = "GAME_OVER"
                       /\ UNCHANGED <<isLoading, pc>>
              ELSE /\ isLoading' = TRUE
                   /\ pc' = [kind |-> "answerDelay", answer |-> answer]
                   /\ UNCHANGED <<gameState, winner, winReason>>
    /\ UNCHANGED <<activeCharacters, playerSecret, aiSecret, playerEliminatedChars,
                   aiRemainingChars, lastAIQuestion, lastAIAnalysis, isAIFinalGuess,
                   gatewayVars, isReviewModeEnabled, modelCalls>>
    /\ UNCHANGED <<voiceVars, storageVars, serviceVars>>

\* handlePlayerAnswer after the artificial delay: the reconciliation
ReconcileAnswer ==
    /\ pc.kind = "answerDelay"
    /\ \E eliminatedIds \in {EliminatedIds(lastAIAnalysis, pc.answer)} :
       \E newRemainingChars \in {KeepRemaining(aiRemainingChars, eliminatedIds)} :
       \E eliminatedNames \in {EliminatedNames(aiRemainingChars, eliminatedIds)} :
           IF SafetyTrips(eliminatedIds, aiRemainingChars)
           THEN /\ messages' = Append(messages, Message("SYSTEM", TextConfused))
                /\ gameState' = "PLAYER_TURN_ASKING"
                /\ UNCHANGED <<aiRemainingChars, winner, winReason>>
           ELSE /\ messages' = Append(messages, Message("SYSTEM",
                        IF JoinNames(eliminatedNames) # <<>>
                        THEN TextEliminated(eliminatedNames)
                        ELSE TextNoneEliminated))
                /\ aiRemainingChars' = newRemainingChars
                /\ IF Len(newRemainingChars) = 0
                   THEN /\ winner' = "PLAYER"
                        /\ winReason' = ReasonWipedOut
                        /\ gameState' = "GAME_OVER"
                   ELSE /\ gameState' = "PLAYER_TURN_ASKING"
                        /\ UNCHANGED <<winner, winReason>>
    /\ isLoading' = FALSE
    /\ pc' = Idle
    /\ UNCHANGED <<activeCharacters, playerSecret, aiSecret, playerEliminatedChars,
                   lastAIQuestion, lastAIAnalysis, isAIFinalGuess, gatewayVars,
                   isReviewModeEnabled, modelCalls>>
    /\ UNCHANGED <<voiceVars, storageVars, serviceVars>>

----------------------------------------------------------------------------
(* The specification                                                       *)

\* what the player types as a question during a game on these characters
QuestionInputs(chars) ==
    {<<"I","s"," ","i","t"," ">> \o chars[i].name \o <<"?">> : i \in 1..Len(chars)}
        \cup {<<"H","a","t","?">>}

Next ==
    \/ \E outcome \in InitOutcomes : InitializeAI(outcome)
    \/ \E b \in BOOLEAN : HandleSetReviewMode(b, TRUE)
    \/ EnterCustomSetup
    \/ LeaveCustomSetup
    \/ \E characterSet \in Rosters, createOk \in BOOLEAN :
           \E playerIndex, aiIndex \in 1..Len(characterSet) :
               StartGame(characterSet, playerIndex, aiIndex, createOk)
    \/ ResetGame
    \/ \E question \in QuestionInputs(activeCharacters) : HandlePlayerQuestion(question)
    \/ \E outcome \in AnswerOutcomes : PlayerQuestionSettles(outcome)
    \/ \E id \in Ids(activeCharacters) : ToggleElimination(id)
    \/ HandleEndTurn
    \/ AITurnStart
    \/ /\ pc.kind = "aiAttempt"
       /\ \E question \in ModelQuestions :
              \E analysis \in AnalysisInputs(aiRemainingChars) :
                  AIAttemptSucceeds(question, analysis)
    \/ \E message \in ThrownMessages : AIAttemptFails(message)
    \/ HandleConfirmAIAnalysis
    \/ \E answer \in {"Yes", "No"} : HandlePlayerAnswer(answer)
    \/ ReconcileAnswer

Spec == Init /\ [][Next]_vars

----------------------------------------------------------------------------
(* The classification of player questions on the five-character board      *)

\* the ways the player types the opening of a guess, one per alternative
TypedPrefixes ==
    {<<"I","s"," ","i","t">>,
     <<"i","s"," ","t","h","e"," ","p","e","r","s","o","n">>,
     <<"I","S"," ","T","H","E"," ","C","H","A","R","A","C","T","E","R">>,
     <<"I","s"," ","y","o","u","r"," ","c","h","a","r","a","c","t","e","r">>,
     <<"i","s"," ","y","o","u"," ","c","h","a","r","a","c","t","e","r">>}

TypedGaps == {<<" ">>, <<"\t", " ">>}
TypedEnds == {<<>>, <<"?">>}
Casings(name) == {name, ToLowerCase(name), ToUpperCase(name)}

\* a guess as the player writes it: opening, whitespace, name, optional "?"
GuessText(prefix, gap, name, end) == prefix \o gap \o name \o end

\* every way of writing a guess at one of these characters
GuessesAt(chars) ==
    {GuessText(p, g, n, e) :
        p \in TypedPrefixes, g \in TypedGaps, e \in TypedEnds,
        n \in UNION {Casings(chars[i].name) : i \in 1..Len(chars)}}

\* texts that are not a guess at an active character
OtherTexts(chars) ==
    {<<"H","a","t","?">>,
     <<"I","s"," ","i","t"," ">> \o Zed \o <<"?">>,
     <<"I","s"," ","i","t","?">>,
     <<"I","s"," ","i","t">> \o chars[1].name,
     <<"S","o"," ","i","s"," ","i","t"," ">> \o chars[1].name \o <<"?">>,
     <<" ">> \o <<"I","s"," ","i","t"," ">> \o Zed \o <<" ">>}

GuessTexts(chars) ==
    IF chars = <<>> THEN {} ELSE GuessesAt(chars) \cup OtherTexts(chars)

NextGuess ==
    \/ \E outcome \in InitOutcomes : InitializeAI(outcome)
    \/ \E characterSet \in GuessRosters, createOk \in BOOLEAN :
           \E playerIndex, aiIndex \in 1..Len(characterSet) :
               StartGame(characterSet, playerIndex, aiIndex, createOk)
    \/ \E question \in GuessTexts(activeCharacters) : HandlePlayerQuestion(question)

SpecGuess == Init /\ [][NextGuess]_vars

----------------------------------------------------------------------------
(* The AI's final guess on boards with names typed by the player           *)

\* the analyses the prompt asks for: one entry per remaining candidate
WellFormedAnalyses(cands) ==
    {[i \in 1..Len(cands) |-> Entry(cands[i].id, f[i])] : f \in [1..Len(cands) -> BOOLEAN]}

NextFinal ==
    \/ \E outcome \in InitOutcomes : InitializeAI(outcome)
    \/ \E characterSet \in FinalRosters, createOk \in BOOLEAN :
           \E playerIndex, aiIndex \in 1..Len(characterSet) :
               StartGame(characterSet, playerIndex, aiIndex, createOk)
    \/ HandlePlayerQuestion(<<"H","a","t","?">>)
    \/ \E outcome \in AnswerOutcomes : PlayerQuestionSettles(outcome)
    \/ HandleEndTurn
    \/ AITurnStart
    \/ /\ pc.kind = "aiAttempt"
       /\ \E analysis \in WellFormedAnalyses(aiRemainingChars) :
              AIAttemptSucceeds(ModelQuestion, analysis)
    \/ HandleConfirmAIAnalysis
    \/ \E answer \in {"Yes", "No"} : HandlePlayerAnswer(answer)
    \/ ReconcileAnswer

SpecFinal == Init /\ [][NextFinal]_vars

----------------------------------------------------------------------------
(* Asking by voice                                                         *)

\* toggleRecording(): the microphone button of the question form; stopping
\* the recorder runs recorder.onstop up to its await of transcribeAudio
ToggleRecording ==
    /\ gameState = "PLAYER_TURN_ASKING"
    /\ ~isLoading
    /\ IF isRecording
       THEN /\ transcribing < MaxTranscriptions
            /\ modelCalls < MaxCalls
            /\ isRecording' = FALSE
            /\ transcribing' = transcribing + 1
            /\ modelCalls' = modelCalls + 1
       ELSE /\ isRecording' = TRUE
            /\ UNCHANGED <<transcribing, modelCalls>>
    /\ UNCHANGED <<gameState, gameVars, gatewayVars, isLoading, isReviewModeEnabled, pc,
                   serviceVars, storageVars>>

\* recorder.onstop after its await: the text goes to the input field, or the
\* request failed; neither touches the game
TranscriptionSettles ==
    /\ transcribing > 0
    /\ transcribing' = transcribing - 1
    /\ UNCHANGED <<gameState, gameVars, gatewayVars, isLoading, isReviewModeEnabled, pc,
                   modelCalls, isRecording, serviceVars, storageVars>>

NextVoice ==
    \/ \E outcome \in InitOutcomes : InitializeAI(outcome)
    \/ \E characterSet \in Rosters, createOk \in BOOLEAN :
           \E playerIndex, aiIndex \in 1..Len(characterSet) :
               StartGame(characterSet, playerIndex, aiIndex, createOk)
    \/ \E question \in QuestionInputs(activeCharacters) : HandlePlayerQuestion(question)
    \/ \E outcome \in AnswerOutcomes : PlayerQuestionSettles(outcome)
    \/ HandleEndTurn
    \/ AITurnStart
    \/ /\ pc.kind = "aiAttempt"
       /\ \E analysis \in WellFormedAnalyses(aiRemainingChars) :
              AIAttemptSucceeds(ModelQuestion, analysis)
    \/ \E message \in ThrownMessages : AIAttemptFails(message)
    \/ HandleConfirmAIAnalysis
    \/ \E answer \in {"Yes", "No"} : HandlePlayerAnswer(answer)
    \/ ReconcileAnswer
    \/ ToggleRecording
    \/ TranscriptionSettles

SpecVoice == Init /\ [][NextVoice]_vars

----------------------------------------------------------------------------
(* promiseWithTimeout around session.prompt                                *)

\* new TimeoutError(...): this.name = "TimeoutError"
TimeoutError == [state |-> "rejected", value |-> "TimeoutError"]

Pending == [state |-> "pending", value |-> "none"]

\* what session.prompt() settles with for a boolean schema: the text of a
\* JSON boolean, or a rejection by the model
PromptResults ==
    {[state |-> "fulfilled", value |-> "true"],
     [state |-> "fulfilled", value |-> "false"],
     [state |-> "rejected", value |-> "NotSupportedError"]}

\* a promise whose late settlement replaces the earlier one
SettleOverwrites(outer, result) == result

\* resolve(value) / reject(reason) on the returned promise: the first call
\* settles it, later calls have no effect
SettleOnce(outer, result) == IF outer.state = "pending" THEN result ELSE outer

\* the service function started by a handler reaches promiseWithTimeout(session.prompt(...), ms)
PromiseWithTimeout ==
    /\ pc.kind \in {"playerQuestion", "aiAttempt"}
    /\ Len(prompts) < modelCalls
    /\ prompts' = Append(prompts, [inner |-> Pending, timer |-> "armed", outer |-> Pending])
    /\ UNCHANGED <<gameState, gameVars, gatewayVars, isLoading, isReviewModeEnabled, pc,
                   modelCalls, voiceVars, storageVars, progressReports>>

\* the setTimeout callback: reject(new TimeoutError(...))
TimerFires(i) ==
    /\ i \in 1..Len(prompts)
    /\ prompts[i].timer = "armed"
    /\ prompts' = [prompts EXCEPT ![i].timer = "fired",
                                  ![i].outer = SettleOnce(prompts[i].outer, TimeoutError)]
    /\ UNCHANGED <<gameState, gameVars, gatewayVars, isLoading, isReviewModeEnabled, pc,
                   modelCalls, voiceVars, storageVars, progressReports>>

\* the underlying promise settles: .then / .catch clear the timer and pass
\* the value or the reason on
PromptSettles(i, result) ==
    /\ i \in 1..Len(prompts)
    /\ prompts[i].inner.state = "pending"
    /\ prompts' = [prompts EXCEPT ![i].inner = result,
                                  ![i].timer = IF prompts[i].timer = "armed" THEN "cleared"
                                               ELSE prompts[i].timer,
                                  ![i].outer = SettleOnce(prompts[i].outer, result)]
    /\ UNCHANGED <<gameState, gameVars, gatewayVars, isLoading, isReviewModeEnabled, pc,
                   modelCalls, voiceVars, storageVars, progressReports>>

\* return JSON.parse(result) ? "Yes" : "No", or the rejection the await rethrows
AnswerOf(outer) ==
    IF outer.state = "fulfilled"
    THEN (IF outer.value = "true" THEN "Yes" ELSE "No")
    ELSE "fail"

\* the handler suspended at its await resumes with what the returned promise
\* of its own request settled with
AwaitedAnswer ==
    /\ pc.kind = "playerQuestion"
    /\ Len(prompts) = modelCalls
    /\ prompts[Len(prompts)].outer.state # "pending"
    /\ PlayerQuestionSettles(AnswerOf(prompts[Len(prompts)].outer))

NextTimeout ==
    \/ \E outcome \in InitOutcomes : InitializeAI(outcome)
    \/ \E characterSet \in Rosters, createOk \in BOOLEAN :
           \E playerIndex, aiIndex \in 1..Len(characterSet) :
               StartGame(characterSet, playerIndex, aiIndex, createOk)
    \/ \E question \in QuestionInputs(activeCharacters) : HandlePlayerQuestion(question)
    \/ PromiseWithTimeout
    \/ \E i \in 1..MaxCalls : TimerFires(i)
    \/ \E i \in 1..MaxCalls : \E result \in PromptResults : PromptSettles(i, result)
    \/ AwaitedAnswer

SpecTimeout == Init /\ [][NextTimeout]_vars

\* the timer of a pending request does fire: setTimeout is not starved
SpecTimeoutFair == SpecTimeout /\ \A i \in 1..MaxCalls : WF_vars(TimerFires(i))

----------------------------------------------------------------------------
(* The handlers as the hook returns them                                   *)

\* handleEndTurn() called by a consumer of the hook other than the End Turn
\* button: the callback tests nothing before it appends and sets AI_TURN
EndTurnCall ==
    /\ gameState # "PLAYER_TURN_ELIMINATING"
    /\ pc = Idle
    /\ Len(messages) < MaxLog
    /\ messages' = Append(messages, Message("SYSTEM", TextThinking))
    /\ gameState' = "AI_TURN"
    /\ UNCHANGED <<activeCharacters, playerSecret, aiSecret, winner, winReason,
                   playerEliminatedChars, aiRemainingChars, lastAIQuestion, lastAIAnalysis,
                   isAIFinalGuess, gatewayVars, isLoading, isReviewModeEnabled, pc, modelCalls>>
    /\ UNCHANGED <<voiceVars, storageVars, serviceVars>>

NextEngine ==
    \/ NextFinal
    \/ ResetGame
    \/ EndTurnCall

SpecEngine == Init /\ [][NextEngine]_vars

----------------------------------------------------------------------------
(* The gateway on its own: initialization, download, initialization again  *)

\* the loaded and total fields of a downloadprogress event: byte counts, a
\* ratio with no total (0 stands for a total that is absent or not positive),
\* or values outside any sensible range
LoadedValues == {-1, 0, 1, 2, 3, 5}
TotalValues == {0, 4}

\* progressPercent: (loaded / total) * 100 with a positive total, loaded * 100
\* otherwise
ProgressPercent(loaded, total) ==
    IF total > 0 THEN (loaded * 100) \div total ELSE loaded * 100

\* Math.max(0, Math.min(100, progressPercent))
ClampedProgress(progressPercent) ==
    IF progressPercent > 100 THEN 100
    ELSE IF progressPercent < 0 THEN 0
    ELSE progressPercent

\* the caller initializes a failed gateway again: setAiStatus(INITIALIZING)
\* followed by initializeAI(), as resetGame does for ERROR and UNAVAILABLE
Reinitialize ==
    /\ aiStatus \in {"ERROR", "UNAVAILABLE"}
    /\ aiStatus' = "INITIALIZING"
    /\ progressReports' = <<>>
    /\ UNCHANGED <<gameState, gameVars, session, model, sessionId, isLoading,
                   isReviewModeEnabled, pc, modelCalls, voiceVars, storageVars, prompts>>

\* downloadModel() up to its await
DownloadModel ==
    /\ aiStatus = "DOWNLOADABLE"
    /\ aiStatus' = IF model THEN "DOWNLOADING" ELSE "ERROR"
    /\ UNCHANGED <<gameState, gameVars, session, model, sessionId, isLoading,
                   isReviewModeEnabled, pc, modelCalls, voiceVars, storageVars, serviceVars>>

\* the downloadprogress listener
DownloadProgress(loaded, total) ==
    /\ aiStatus = "DOWNLOADING"
    /\ Len(progressReports) < MaxProgressEvents
    /\ progressReports' = Append(progressReports, ClampedProgress(ProgressPercent(loaded, total)))
    /\ UNCHANGED <<gameState, gameVars, gatewayVars, isLoading, isReviewModeEnabled, pc,
                   modelCalls, voiceVars, storageVars, prompts>>

\* model.create() of downloadModel settles
DownloadSettles(createOk) ==
    /\ aiStatus = "DOWNLOADING"
    /\ createOk => sessionId < MaxSessions
    /\ sessionId' = NextSessionId(sessionId, createOk)
    /\ IF createOk
       THEN /\ session' = "live"
            /\ aiStatus' = "READY"
       ELSE /\ session' = "none"
            /\ aiStatus' = "ERROR"
    /\ UNCHANGED <<gameState, gameVars, model, isLoading, isReviewModeEnabled, pc,
                   modelCalls, voiceVars, storageVars, serviceVars>>

NextGateway ==
    \/ \E outcome \in InitOutcomes : InitializeAI(outcome)
    \/ Reinitialize
    \/ DownloadModel
    \/ \E loaded \in LoadedValues, total \in TotalValues : DownloadProgress(loaded, total)
    \/ \E createOk \in BOOLEAN : DownloadSettles(createOk)

SpecGateway == Init /\ [][NextGateway]_vars

----------------------------------------------------------------------------
(* The stored setting across visits                                        *)

\* the page is loaded again: the hook and the gateway module start over, and
\* only localStorage is carried along
Reload ==
    /\ gameState' = "SETUP"
    /\ activeCharacters' = <<>>
    /\ playerSecret' = NoCharacter
    /\ aiSecret' = NoCharacter
    /\ messages' = <<>>
    /\ winner' = NULL
    /\ winReason' = <<>>
    /\ isLoading' = FALSE
    /\ playerEliminatedChars' = {}
    /\ aiRemainingChars' = <<>>
    /\ lastAIQuestion' = <<>>
    /\ lastAIAnalysis' = <<>>
    /\ isAIFinalGuess' = FALSE
    /\ aiStatus' = "INITIALIZING"
    /\ isReviewModeEnabled' = ReadReviewMode(storedReviewMode)
    /\ session' = "none"
    /\ model' = FALSE
    /\ pc' = Idle
    /\ modelCalls' = 0
    /\ sessionId' = 0
    /\ isRecording' = FALSE
    /\ transcribing' = 0
    /\ prompts' = <<>>
    /\ progressReports' = <<>>
    /\ UNCHANGED storedReviewMode

\* a visitor may find anything under the key
InitSettings ==
    /\ storedReviewMode \in StoredValues
    /\ isReviewModeEnabled = ReadReviewMode(storedReviewMode)
    /\ gameState = "SETUP"
    /\ activeCharacters = <<>>
    /\ playerSecret = NoCharacter
    /\ aiSecret = NoCharacter
    /\ messages = <<>>
    /\ winner = NULL
    /\ winReason = <<>>
    /\ isLoading = FALSE
    /\ playerEliminatedChars = {}
    /\ aiRemainingChars = <<>>
    /\ lastAIQuestion = <<>>
    /\ lastAIAnalysis = <<>>
    /\ isAIFinalGuess = FALSE
    /\ aiStatus = "INITIALIZING"
    /\ session = "none"
    /\ model = FALSE
    /\ pc = Idle
    /\ modelCalls = 0
    /\ sessionId = 0
    /\ isRecording = FALSE
    /\ transcribing = 0
    /\ prompts = <<>>
    /\ progressReports = <<>>

NextSettings ==
    \/ \E outcome \in InitOutcomes : InitializeAI(outcome)
    \/ \E b \in BOOLEAN, setItemOk \in BOOLEAN : HandleSetReviewMode(b, setItemOk)
    \/ EnterCustomSetup
    \/ LeaveCustomSetup
    \/ \E characterSet \in Rosters, createOk \in BOOLEAN :
           \E playerIndex, aiIndex \in 1..Len(characterSet) :
               StartGame(characterSet, playerIndex, aiIndex, createOk)
    \/ \E question \in QuestionInputs(activeCharacters) : HandlePlayerQuestion(question)
    \/ \E outcome \in AnswerOutcomes : PlayerQuestionSettles(outcome)
    \/ Reload

SpecSettings == InitSettings /\ [][NextSettings]_vars

----------------------------------------------------------------------------
(* The busy flag across the start of a game                                *)

\* handleStartDefault / handleStartWithCustomSet up to the await of startGame
HandleStart(characterSet) ==
    /\ gameState = "SETUP"
    /\ aiStatus = "READY"
    /\ ~isLoading
    /\ pc = Idle
    /\ isLoading' = TRUE
    /\ pc' = [kind |-> "startGame", characterSet |-> characterSet, wrapped |-> TRUE]
    /\ UNCHANGED <<gameState, gameVars, gatewayVars, isReviewModeEnabled, modelCalls>>
    /\ UNCHANGED <<voiceVars, storageVars, serviceVars>>

\* onStartGame of the custom set-up screen: startGame itself, up to its await
\* of startNewGameSession (or to its throw, for a roster with a missing image)
StartGameFromCustomSetup(characterSet) ==
    /\ gameState = "CUSTOM_SETUP"
    /\ aiStatus = "READY"
    /\ ~isLoading
    /\ pc = Idle
    /\ IF MissingBlob(characterSet)
       THEN /\ StartGameOutcome(characterSet, 1, 2, TRUE)
            /\ UNCHANGED pc
       ELSE /\ pc' = [kind |-> "startGame", characterSet |-> characterSet, wrapped |-> FALSE]
            /\ UNCHANGED <<gameState, gameVars, gatewayVars, isReviewModeEnabled,
                           modelCalls>>
            /\ UNCHANGED <<voiceVars, storageVars, serviceVars>>
    /\ UNCHANGED isLoading

\* startGame after its await, and the finally block of the handler that
\* called it, if one did
StartGameSettles(playerIndex, aiIndex, createOk) ==
    /\ pc.kind = "startGame"
    /\ StartGameOutcome(pc.characterSet, playerIndex, aiIndex, createOk)
    /\ isLoading' = IF pc.wrapped THEN FALSE ELSE isLoading
    /\ pc' = Idle

NextLoading ==
    \/ \E outcome \in InitOutcomes : InitializeAI(outcome)
    \/ EnterCustomSetup
    \/ LeaveCustomSetup
    \/ \E characterSet \in Rosters : HandleStart(characterSet)
    \/ \E characterSet \in Rosters : StartGameFromCustomSetup(characterSet)
    \/ /\ pc.kind = "startGame"
       /\ \E createOk \in BOOLEAN :
              \E playerIndex, aiIndex \in 1..Len(pc.characterSet) :
                  StartGameSettles(playerIndex, aiIndex, createOk)
    \/ ResetGame
    \/ \E question \in QuestionInputs(activeCharacters) : HandlePlayerQuestion(question)
    \/ \E outcome \in AnswerOutcomes : PlayerQuestionSettles(outcome)
    \/ HandleEndTurn
    \/ AITurnStart
    \/ /\ pc.kind = "aiAttempt"
       /\ \E analysis \in WellFormedAnalyses(aiRemainingChars) :
              AIAttemptSucceeds(ModelQuestion, analysis)
    \/ \E message \in ThrownMessages : AIAttemptFails(message)
    \/ HandleConfirmAIAnalysis
    \/ \E answer \in {"Yes", "No"} : HandlePlayerAnswer(answer)
    \/ ReconcileAnswer

SpecLoading == Init /\ [][NextLoading]_vars

----------------------------------------------------------------------------
(* Games in which the player answers as the stored analysis says           *)

\* lastAIAnalysis has an entry for this character
HasEntryFor(analysis, id) == \E i \in 1..Len(analysis) : analysis[i].id = id

\* the answer is Yes exactly when the entries of this character have the feature
AnswerFollowsAnalysis(analysis, id, answer) ==
    /\ HasEntryFor(analysis, id)
    /\ \A i \in 1..Len(analysis) :
           analysis[i].id = id => (analysis[i].has_feature <=> (answer = "Yes"))

\* the player's answer when the reconciliation will use it; the answer to a
\* final guess that the handler settles on the spot is free
HonestAnswer(answer) ==
    /\ \/ isAIFinalGuess /\ GuessedNameOf(lastAIQuestion) # <<>>
       \/ AnswerFollowsAnalysis(lastAIAnalysis, playerSecret.id, answer)
    /\ HandlePlayerAnswer(answer)

NextHonest ==
    \/ \E outcome \in InitOutcomes : InitializeAI(outcome)
    \/ \E characterSet \in HonestRosters, createOk \in BOOLEAN :
           \E playerIndex, aiIndex \in 1..Len(characterSet) :
               StartGame(characterSet, playerIndex, aiIndex, createOk)
    \/ ResetGame
    \/ HandlePlayerQuestion(<<"H","a","t","?">>)
    \/ \E outcome \in AnswerOutcomes : PlayerQuestionSettles(outcome)
    \/ HandleEndTurn
    \/ AITurnStart
    \/ /\ pc.kind = "aiAttempt"
       /\ \E analysis \in AnalysisInputs(aiRemainingChars) :
              /\ HasEntryFor(analysis, playerSecret.id)
              /\ AIAttemptSucceeds(ModelQuestion, analysis)
    \/ \E message \in ThrownMessages : AIAttemptFails(message)
    \/ HandleConfirmAIAnalysis
    \/ /\ gameState = "AI_TURN_WAITING_FOR_ANSWER"
       /\ \E answer \in {"Yes", "No"} : HonestAnswer(answer)
    \/ ReconcileAnswer

SpecHonest == Init /\ [][NextHonest]_vars

----------------------------------------------------------------------------
(* Games in which the model analyses every candidate exactly once          *)

\* the analysis names each remaining candidate once and nobody else
OneEntryPerCandidate(analysis, remaining) ==
    /\ Len(analysis) = Len(remaining)
    /\ \A i \in 1..Len(remaining) :
           Cardinality({j \in 1..Len(analysis) : analysis[j].id = remaining[i].id}) = 1

\* the player's Yes and No in the log
AnswersInLog(log) ==
    Len(SelectSeq(log, LAMBDA m : m.sender = "PLAYER" /\ m.text \in {<<"Yes">>, <<"No">>}))

\* the AI has asked for a character by name
FinalGuessInLog(log, chars) ==
    \E i \in 1..Len(log) : \E j \in 1..Len(chars) :
        log[i] = Message("AI", FinalGuessQuestion(chars[j].name))

NextWellFormed ==
    \/ \E outcome \in InitOutcomes : InitializeAI(outcome)
    \/ \E characterSet \in HonestRosters, createOk \in BOOLEAN :
           \E playerIndex, aiIndex \in 1..Len(characterSet) :
               StartGame(characterSet, playerIndex, aiIndex, createOk)
    \/ HandlePlayerQuestion(<<"H","a","t","?">>)
    \/ \E outcome \in AnswerOutcomes : PlayerQuestionSettles(outcome)
    \/ HandleEndTurn
    \/ AITurnStart
    \/ /\ pc.kind = "aiAttempt"
       /\ \E analysis \in WellFormedAnalyses(aiRemainingChars) :
              AIAttemptSucceeds(ModelQuestion, analysis)
    \/ \E message \in ThrownMessages : AIAttemptFails(message)
    \/ HandleConfirmAIAnalysis
    \/ \E answer \in {"Yes", "No"} : HandlePlayerAnswer(answer)
    \/ ReconcileAnswer

SpecWellFormed == Init /\ [][NextWellFormed]_vars

----------------------------------------------------------------------------
(* The AI's turn when every model call settles                             *)

\* the await of getAIQuestionAndAnalysis is over: the call resolved, rejected
\* or ran into its timeout
AttemptSettles ==
    \/ /\ pc.kind = "aiAttempt"
       /\ \E analysis \in WellFormedAnalyses(aiRemainingChars) :
              AIAttemptSucceeds(ModelQuestion, analysis)
    \/ \E message \in ThrownMessages : AIAttemptFails(message)

\* the effect runs after the render that made the state AI_TURN, and every
\* call of an attempt settles
SpecAITurnFair ==
    /\ SpecWellFormed
    /\ WF_vars(AITurnStart)
    /\ WF_vars(AttemptSettles)

----------------------------------------------------------------------------
(* The draw of the two secrets, one iteration at a time                    *)

\* the character sets startGame accepts: it tests the images and nothing else
DrawRosters == {<<>>, <<CharCid>>, RosterCidDana, RosterTrio}

\* a generator that always returns 0
RandomIndexZero(n) == {0}

\* Math.floor(Math.random() * n), 0-based: 0 for an empty roster
RandomIndex(n) == IF n = 0 THEN {0} ELSE 0..(n - 1)

\* startGame up to the end of the first pass through the body of its do-while
BeginDraw(characterSet) ==
    /\ gameState \in {"SETUP", "CUSTOM_SETUP"}
    /\ aiStatus = "READY"
    /\ ~isLoading
    /\ pc = Idle
    /\ ~MissingBlob(characterSet)
    /\ model
    /\ sessionId < MaxSessions
    /\ \E playerIndex, aiIndex \in RandomIndex(Len(characterSet)) :
           pc' = [kind |-> "draw", characterSet |-> characterSet,
                  playerIndex |-> playerIndex, aiIndex |-> aiIndex]
    /\ UNCHANGED <<gameState, gameVars, gatewayVars, isLoading, isReviewModeEnabled,
                   modelCalls>>
    /\ UNCHANGED <<voiceVars, storageVars, serviceVars>>

\* while (aiIndex === playerIndex): one more pass through the body
Redraw ==
    /\ pc.kind = "draw"
    /\ pc.aiIndex = pc.playerIndex
    /\ \E aiIndex \in RandomIndex(Len(pc.characterSet)) :
           pc' = [pc EXCEPT !.aiIndex = aiIndex]
    /\ UNCHANGED <<gameState, gameVars, gatewayVars, isLoading, isReviewModeEnabled,
                   modelCalls>>
    /\ UNCHANGED <<voiceVars, storageVars, serviceVars>>

\* the loop is left: startGame runs to its end
DrawDone ==
    /\ pc.kind = "draw"
    /\ pc.aiIndex # pc.playerIndex
    /\ StartGameOutcome(pc.characterSet, pc.playerIndex + 1, pc.aiIndex + 1, TRUE)
    /\ pc' = Idle
    /\ UNCHANGED isLoading

\* the loop is synchronous: while it runs, the one thread of the page handles
\* no click and settles no promise
LoopNotRunning == pc.kind # "draw"

NextDraw ==
    \/ LoopNotRunning /\ \E outcome \in InitOutcomes : InitializeAI(outcome)
    \/ LoopNotRunning /\ EnterCustomSetup
    \/ LoopNotRunning /\ LeaveCustomSetup
    \/ \E characterSet \in DrawRosters : BeginDraw(characterSet)
    \/ Redraw
    \/ DrawDone
    \/ \E question \in QuestionInputs(activeCharacters) : HandlePlayerQuestion(question)
    \/ \E outcome \in AnswerOutcomes : PlayerQuestionSettles(outcome)
    \/ HandleEndTurn

SpecDraw == Init /\ [][NextDraw]_vars

\* a random generator that is fair returns, sooner or later, an index other
\* than the player's when there is one; the handler itself keeps running
SpecDrawFair ==
    /\ SpecDraw
    /\ WF_vars(Redraw)
    /\ WF_vars(DrawDone)

----------------------------------------------------------------------------
(* The gateway's session across game starts                                *)

NextSessions ==
    \/ NextGateway
    \/ \E characterSet \in Rosters, createOk \in BOOLEAN :
           \E playerIndex, aiIndex \in 1..Len(characterSet) :
               StartGame(characterSet, playerIndex, aiIndex, createOk)
    \/ \E question \in QuestionInputs(activeCharacters) : HandlePlayerQuestion(question)
    \/ \E outcome \in AnswerOutcomes : PlayerQuestionSettles(outcome)

SpecSessions == Init /\ [][NextSessions]_vars

----------------------------------------------------------------------------
(* Properties                                                              *)

\* C1: a reconciliation step (the player's answer to a question that is not a
\* final guess) never removes every remaining candidate, whatever the stored
\* analysis contains and whatever the answer: a non-empty candidate list is
\* non-empty after the step.
C1_ReconciliationKeepsACandidate ==
    [][(pc.kind = "answerDelay" /\ aiRemainingChars # <<>>) => aiRemainingChars' # <<>>]_vars

\* C2: once startGame has succeeded, both secrets are active characters and
\* their ids differ.
C2_SecretsActiveAndDistinct ==
    gameState \notin {"SETUP", "CUSTOM_SETUP"} =>
        /\ \E i \in 1..Len(activeCharacters) : activeCharacters[i] = playerSecret
        /\ \E i \in 1..Len(activeCharacters) : activeCharacters[i] = aiSecret
        /\ playerSecret.id # aiSecret.id

C2_Witness ==
    /\ gameState = "PLAYER_TURN_ASKING"
    /\ Len(messages) = 1
    /\ playerSecret = CharDana
    /\ aiSecret = CharCid

\* C3: when the reconciliation does not veto the elimination, the new candidate
\* list is the old one without the candidates that have an entry with
\* has_feature = false (answer Yes) or has_feature = true (answer No);
\* candidates without such an entry, the unmentioned ones among them, stay.
C3_EliminationFollowsAnalysis ==
    [][(/\ pc.kind = "answerDelay"
        /\ messages' # Append(messages, Message("SYSTEM", TextConfused)))
       => aiRemainingChars' =
              SelectSeq(aiRemainingChars, LAMBDA c :
                  ~\E i \in 1..Len(lastAIAnalysis) :
                      /\ lastAIAnalysis[i].id = c.id
                      /\ lastAIAnalysis[i].has_feature = (pc.answer = "No"))]_vars

\* candidates [Cid, Dana], analysis Cid:true, Dana:false, answer No: [Dana] is left
C3_Witness ==
    /\ activeCharacters = RosterCidDana
    /\ aiRemainingChars = <<CharDana>>
    /\ lastAIAnalysis = <<Entry("Cid", TRUE), Entry("Dana", FALSE)>>
    /\ gameState = "PLAYER_TURN_ASKING"
    /\ Len(messages) >= 2
    /\ messages[Len(messages) - 1] = Message("PLAYER", <<"No">>)
    /\ messages[Len(messages)] = Message("SYSTEM", TextEliminated(<<Cid>>))

\* C4: when the stored analysis and the answer eliminate every remaining
\* candidate, the elimination is discarded: the candidates are unchanged, one
\* SYSTEM warning is appended, no winner is set and the player's turn follows.
C4_FullEliminationDiscarded ==
    [][(/\ pc.kind = "answerDelay"
        /\ aiRemainingChars # <<>>
        /\ \A k \in 1..Len(aiRemainingChars) :
               \E i \in 1..Len(lastAIAnalysis) :
                   /\ lastAIAnalysis[i].id = aiRemainingChars[k].id
                   /\ lastAIAnalysis[i].has_feature = (pc.answer = "No"))
       => /\ aiRemainingChars' = aiRemainingChars
          /\ messages' = Append(messages, Message("SYSTEM", TextConfused))
          /\ winner' = NULL
          /\ gameState' = "PLAYER_TURN_ASKING"]_vars

\* C5: the analysis a successful AI question stores has exactly one entry for
\* each remaining candidate: the same ids, none missing, extra or repeated.
C5_AnalysisMatchesCandidates ==
    [][(/\ pc.kind = "aiAttempt"
        /\ gameState' \in {"PLAYER_REVIEWING_AI_ANALYSIS", "AI_TURN_WAITING_FOR_ANSWER"})
       => /\ Len(lastAIAnalysis') = Len(aiRemainingChars)
          /\ \A k \in 1..Len(aiRemainingChars) :
                 \E i \in 1..Len(lastAIAnalysis') :
                     lastAIAnalysis'[i].id = aiRemainingChars[k].id
          /\ \A i, j \in 1..Len(lastAIAnalysis') :
                 lastAIAnalysis'[i].id = lastAIAnalysis'[j].id => i = j]_vars

\* C6: a question asked on the player's turn that matches the final-guess
\* pattern and whose captured name is an active character's ends the game at
\* once, with no model request: the player wins when the name is the AI's
\* secret in any letter case, otherwise the AI wins and the reason given
\* contains the AI's secret name.
C6_GuessEndsGame ==
    [][(/\ gameState = "PLAYER_TURN_ASKING"
        /\ Len(messages') > Len(messages)
        /\ messages'[Len(messages) + 1].sender = "PLAYER")
       => \A question \in {messages'[Len(messages) + 1].text} :
          \A m \in {FinalGuessRegexMatch(Trim(question))} :
          \A name \in {ToLowerCase(Trim(m.group))} :
              (/\ m.matched
               /\ \E i \in 1..Len(activeCharacters) :
                      ToLowerCase(activeCharacters[i].name) = name)
              => /\ gameState' = "GAME_OVER"
                 /\ modelCalls' = modelCalls
                 /\ pc' = Idle
                 /\ IF name = ToLowerCase(aiSecret.name)
                    THEN winner' = "PLAYER"
                    ELSE winner' = "AI" /\ Contains(winReason', aiSecret.name)]_vars

\* "is the person bella", asked while the AI's secret is Bella
C6_Witness ==
    /\ gameState = "GAME_OVER"
    /\ aiSecret = CharBella
    /\ winner = "PLAYER"
    /\ modelCalls = 0
    /\ Len(messages) = 3
    /\ messages[2] = Message("PLAYER",
           <<"i","s"," ","t","h","e"," ","p","e","r","s","o","n"," ","b","e","l","l","a">>)

\* C7 as stated: on the board [Alex, Bella, Cid, Dana, Eli] with the player's
\* secret Bella, the question "Is it Bella?" ends the game with the player as
\* the winner.
C7_ScenarioA_PlayerSecret ==
    [][(/\ gameState = "PLAYER_TURN_ASKING"
        /\ activeCharacters = ScenarioRoster
        /\ playerSecret = CharBella
        /\ Len(messages') > Len(messages)
        /\ messages'[Len(messages) + 1] =
               Message("PLAYER", <<"I","s"," ","i","t"," ","B","e","l","l","a","?">>))
       => (winner' = "PLAYER" /\ gameState' = "GAME_OVER")]_vars

\* C7, amended: on the board [Alex, Bella, Cid, Dana, Eli] with the AI's secret
\* Bella, the question "Is it Bella?" ends the game with the player as the
\* winner.
C7_ScenarioA_AISecret ==
    [][(/\ gameState = "PLAYER_TURN_ASKING"
        /\ activeCharacters = ScenarioRoster
        /\ aiSecret = CharBella
        /\ Len(messages') > Len(messages)
        /\ messages'[Len(messages) + 1] =
               Message("PLAYER", <<"I","s"," ","i","t"," ","B","e","l","l","a","?">>))
       => (winner' = "PLAYER" /\ gameState' = "GAME_OVER")]_vars

C7_Witness ==
    /\ gameState = "GAME_OVER"
    /\ activeCharacters = ScenarioRoster
    /\ aiSecret = CharBella
    /\ winner = "PLAYER"
    /\ Len(messages) = 3
    /\ messages[2] = Message("PLAYER", <<"I","s"," ","i","t"," ","B","e","l","l","a","?">>)

\* C8 as stated: on the same board with the player's secret Bella, the question
\* "Is it Alex?" ends the game with the AI as the winner and a reason that
\* names Bella.
C8_ScenarioB_PlayerSecret ==
    [][(/\ gameState = "PLAYER_TURN_ASKING"
        /\ activeCharacters = ScenarioRoster
        /\ playerSecret = CharBella
        /\ Len(messages') > Len(messages)
        /\ messages'[Len(messages) + 1] =
               Message("PLAYER", <<"I","s"," ","i","t"," ","A","l","e","x","?">>))
       => /\ winner' = "AI"
          /\ gameState' = "GAME_OVER"
          /\ Contains(winReason', Bella)]_vars

\* C8, amended: on the same board with the AI's secret Bella, the question
\* "Is it Alex?" ends the game with the AI as the winner and a reason that
\* names Bella.
C8_ScenarioB_AISecret ==
    [][(/\ gameState = "PLAYER_TURN_ASKING"
        /\ activeCharacters = ScenarioRoster
        /\ aiSecret = CharBella
        /\ Len(messages') > Len(messages)
        /\ messages'[Len(messages) + 1] =
               Message("PLAYER", <<"I","s"," ","i","t"," ","A","l","e","x","?">>))
       => /\ winner' = "AI"
          /\ gameState' = "GAME_OVER"
          /\ Contains(winReason', Bella)]_vars

C8_Witness ==
    /\ gameState = "GAME_OVER"
    /\ activeCharacters = ScenarioRoster
    /\ aiSecret = CharBella
    /\ winner = "AI"
    /\ winReason = ReasonGuessedWrong(Bella)
    /\ Len(messages) = 4
    /\ messages[2] = Message("PLAYER", <<"I","s"," ","i","t"," ","A","l","e","x","?">>)

\* C9: a question is treated as a final guess exactly when it reads as one of
\* the pattern's openings (in any letter case), whitespace, the name of an active
\* character (in any letter case) and an optional "?"; every other question
\* is handled as a normal question.
C9_GuessClassification ==
    [][(/\ gameState = "PLAYER_TURN_ASKING"
        /\ Len(messages') > Len(messages)
        /\ messages'[Len(messages) + 1].sender = "PLAYER")
       => \A t \in {Trim(messages'[Len(messages) + 1].text)} :
          LET Openings ==
                  {<<"i","s"," ","i","t">>,
                   <<"i","s"," ","t","h","e"," ","p","e","r","s","o","n">>,
                   <<"i","s"," ","t","h","e"," ","c","h","a","r","a","c","t","e","r">>,
                   <<"i","s"," ","y","o","u","r"," ","c","h","a","r","a","c","t","e","r">>,
                   <<"i","s"," ","y","o","u"," ","c","h","a","r","a","c","t","e","r">>}
              ReadsAsGuessAt(name) ==
                  \E opening \in Openings, j \in 1..Len(t), e \in {0, 1} :
                      /\ Len(opening) < j
                      /\ j <= Len(t) - e
                      /\ ToLowerCase(SubSeq(t, 1, Len(opening))) = opening
                      /\ \A k \in (Len(opening) + 1)..j : IsSpace(t[k])
                      /\ e = 1 => t[Len(t)] = "?"
                      /\ ToLowerCase(SubSeq(t, j + 1, Len(t) - e)) = ToLowerCase(name)
          IN  IF \E c \in 1..Len(activeCharacters) : ReadsAsGuessAt(activeCharacters[c].name)
              THEN gameState' = "GAME_OVER" /\ pc' = Idle
              ELSE gameState' = "PLAYER_TURN_ASKING" /\ pc'.kind = "playerQuestion"]_vars

\* C10: an AI turn that starts with exactly one remaining candidate asks "Is
\* your character <name>?" as an AI message, marks the question as the final
\* guess and waits for the answer at once: no review step, with review mode
\* on or off, and no model request.
C10_SingleCandidateFinalGuess ==
    [][(gameState = "AI_TURN" /\ Len(aiRemainingChars) = 1)
       => /\ messages' = Append(messages, Message("AI",
                 <<"I","s"," ","y","o","u","r"," ","c","h","a","r","a","c","t","e","r"," ">>
                     \o aiRemainingChars[1].name \o <<"?">>))
          /\ isAIFinalGuess'
          /\ gameState' = "AI_TURN_WAITING_FOR_ANSWER"
          /\ modelCalls' = modelCalls
          /\ pc' = Idle]_vars

\* "Is your character Dana?" asked with review mode on
C10_Witness ==
    /\ gameState = "AI_TURN_WAITING_FOR_ANSWER"
    /\ isReviewModeEnabled
    /\ isAIFinalGuess
    /\ aiRemainingChars = <<CharDana>>
    /\ messages[Len(messages)] = Message("AI",
           <<"I","s"," ","y","o","u","r"," ","c","h","a","r","a","c","t","e","r"," ",
             "D","a","n","a","?">>)

\* C11: while a question-and-analysis attempt is in flight (AI_TURN, two or more
\* candidates) it is one of at most three; the step that settles it either
\* accepts it (the stored analysis has both a true and a false entry, and its
\* question is appended as an AI message), or rejects it and starts the next
\* attempt (the log, the stored question and the stored analysis stay as they
\* were), or, after the third rejection, appends the SYSTEM concession and hands
\* the turn to the player with the candidates, the stored question and the
\* stored analysis unchanged and no AI message appended.
C11_AttemptsBoundedAndRejectedUnseen ==
    [][pc.kind = "aiAttempt" =>
          /\ gameState = "AI_TURN"
          /\ Len(aiRemainingChars) >= 2
          /\ pc.attempt \in 1..MAX_AI_RETRIES
          /\ \A after \in {[state |-> gameState', log |-> messages', pc |-> pc',
                            question |-> lastAIQuestion', analysis |-> lastAIAnalysis',
                            remaining |-> aiRemainingChars']} :
                \/ /\ after.state \in {"PLAYER_REVIEWING_AI_ANALYSIS", "AI_TURN_WAITING_FOR_ANSWER"}
                   /\ \E i, j \in 1..Len(after.analysis) :
                          after.analysis[i].has_feature /\ ~after.analysis[j].has_feature
                   /\ Len(after.log) = Len(messages) + 2
                   /\ SubSeq(after.log, 1, Len(messages)) = messages
                   /\ after.log[Len(messages) + 1] = Message("AI", after.question)
                   /\ after.log[Len(messages) + 2].sender = "SYSTEM"
                   /\ after.remaining = aiRemainingChars
                \/ /\ after.state = "AI_TURN"
                   /\ pc.attempt < MAX_AI_RETRIES
                   /\ after.pc.kind = "aiAttempt"
                   /\ after.pc.attempt = pc.attempt + 1
                   /\ after.log = messages
                   /\ after.question = lastAIQuestion
                   /\ after.analysis = lastAIAnalysis
                   /\ after.remaining = aiRemainingChars
                \/ /\ after.state = "PLAYER_TURN_ASKING"
                   /\ pc.attempt = MAX_AI_RETRIES
                   /\ after.pc = Idle
                   /\ after.log = Append(messages, Message("SYSTEM", TextConcede))
                   /\ after.question = lastAIQuestion
                   /\ after.analysis = lastAIAnalysis
                   /\ after.remaining = aiRemainingChars]_vars

\* the AI has conceded its turn after three rejected attempts
C11_Witness ==
    /\ gameState = "PLAYER_TURN_ASKING"
    /\ messages # <<>>
    /\ messages[Len(messages)] = Message("SYSTEM", TextConcede)
    /\ modelCalls = 1 + MAX_AI_RETRIES
    /\ Len(aiRemainingChars) >= 2
    /\ \A i \in 1..Len(messages) : messages[i].sender # "AI" \/ messages[i].text \in {<<"Yes">>, <<"No">>}

\* C12: in AI_TURN_WAITING_FOR_ANSWER with isAIFinalGuess set, the player's
\* answer ends the game at once with the candidates unchanged: the AI wins when
\* the character it guessed carries the name of the player's secret and the
\* answer is Yes, the player wins when the names differ and the answer is No,
\* and the AI wins in the two contradicting combinations.
C12_FinalGuessAnswerEndsGame ==
    [][(gameState = "AI_TURN_WAITING_FOR_ANSWER" /\ isAIFinalGuess /\ pc = Idle
            /\ messages' # messages) =>
          \A after \in {[state |-> gameState', winner |-> winner', log |-> messages',
                         remaining |-> aiRemainingChars']} :
              LET answer == after.log[Len(after.log)].text
                  same == aiRemainingChars[1].name = playerSecret.name
              IN  /\ after.state = "GAME_OVER"
                  /\ after.remaining = aiRemainingChars
                  /\ after.winner = IF same /\ answer = <<"Yes">> THEN "AI"
                                    ELSE IF ~same /\ answer = <<"No">> THEN "PLAYER"
                                    ELSE "AI"]_vars

\* C13: in every state of a game (any state outside the set-up screens) each
\* remaining AI candidate is an active character; the step that starts a game
\* makes the candidates equal to the active characters; every other step leaves
\* a set of candidates that is contained in the set before the step.
C13_CandidatesWithinActive ==
    /\ [](gameState \notin {"SETUP", "CUSTOM_SETUP"} =>
            \A i \in 1..Len(aiRemainingChars) :
                \E j \in 1..Len(activeCharacters) : activeCharacters[j] = aiRemainingChars[i])
    /\ [][\A after \in {[state |-> gameState', active |-> activeCharacters',
                         remaining |-> aiRemainingChars']} :
            IF gameState \in {"SETUP", "CUSTOM_SETUP"} /\ after.state = "PLAYER_TURN_ASKING"
            THEN after.remaining = after.active /\ after.active # <<>>
            ELSE \A i \in 1..Len(after.remaining) :
                     \E j \in 1..Len(aiRemainingChars) :
                         aiRemainingChars[j] = after.remaining[i]]_vars

\* a game in which the AI has narrowed its candidates down
C13_Witness ==
    /\ gameState = "PLAYER_TURN_ASKING"
    /\ Len(activeCharacters) = 2
    /\ Len(aiRemainingChars) = 1
    /\ aiRemainingChars[1] \in {activeCharacters[1], activeCharacters[2]}

\* C14: once a game has started the AI has at least one candidate in every
\* state that is not terminal; a reconciliation that leaves no candidate ends
\* the game in the same step (winner PLAYER, GAME_OVER); and an AI turn entered
\* without a candidate ends the game with winner PLAYER.
C14_CandidatesNeverRunOut ==
    /\ [](gameState \in {"PLAYER_TURN_ASKING", "PLAYER_TURN_ELIMINATING", "AI_TURN",
                         "PLAYER_REVIEWING_AI_ANALYSIS", "AI_TURN_WAITING_FOR_ANSWER"}
            => aiRemainingChars # <<>>)
    /\ [][\A after \in {[state |-> gameState', winner |-> winner',
                         remaining |-> aiRemainingChars']} :
            /\ (pc.kind = "answerDelay" /\ aiRemainingChars # <<>> /\ after.remaining = <<>>)
                   => (after.state = "GAME_OVER" /\ after.winner = "PLAYER")
            /\ (gameState = "AI_TURN" /\ aiRemainingChars = <<>> /\ after.state # "AI_TURN")
                   => (after.state = "GAME_OVER" /\ after.winner = "PLAYER")]_vars

\* a reconciliation has removed the last candidates and ended the game
C14_Witness ==
    /\ gameState = "GAME_OVER"
    /\ aiRemainingChars = <<>>
    /\ activeCharacters # <<>>
    /\ winner = "PLAYER"
    /\ winReason = ReasonWipedOut

\* C15: winner and winReason are set only in the terminal state: every state
\* other than GAME_OVER (the set-up screen reached by "play again" and the
\* states of the next game included) has no winner and an empty winReason, and
\* in GAME_OVER the winner is PLAYER or AI.
C15_WinnerOnlyWhenGameOver ==
    /\ gameState # "GAME_OVER" => (winner = NULL /\ winReason = <<>>)
    /\ gameState = "GAME_OVER" => winner \in {"PLAYER", "AI"}

\* C16: from the start of a game to the next reset no message is deleted or
\* reordered: across every step that begins in a game and does not lead to the
\* set-up screen, the log before the step is a prefix of the log after it.
C16_LogIsAppendOnly ==
    [][(gameState \notin {"SETUP", "CUSTOM_SETUP"} /\ gameState' \notin {"SETUP", "CUSTOM_SETUP"}) =>
          \A log \in {messages'} :
              /\ Len(log) >= Len(messages)
              /\ SubSeq(log, 1, Len(messages)) = messages]_vars

\* a game whose log has grown over a full round of both turns
C16_Witness ==
    /\ gameState = "PLAYER_TURN_ASKING"
    /\ Len(messages) >= 9
    /\ messages[1].sender = "SYSTEM"
    /\ \E i \in 2..Len(messages) : messages[i].sender = "AI" /\ messages[i].text = lastAIQuestion

\* C17: startGame on a roster in which some character has no image data does
\* not start a game: both secrets, the active characters, the AI's candidates
\* and the log stay as they were, the model session is neither destroyed nor
\* created, and the state after the call is SETUP.
C17_MissingImageStartsNothing ==
    [][\A characterSet \in Rosters, createOk \in BOOLEAN :
          \A playerIndex, aiIndex \in 1..Len(characterSet) :
              ((\E i \in 1..Len(characterSet) : ~characterSet[i].imageBlob)
                  /\ StartGame(characterSet, playerIndex, aiIndex, createOk))
              => /\ gameState' = "SETUP"
                 /\ UNCHANGED <<playerSecret, aiSecret, activeCharacters, aiRemainingChars,
                                messages, session, sessionId>>]_vars

\* a start was refused for a missing image: the error status is shown while
\* the session of the set-up screen is still alive
C17_Witness ==
    /\ gameState = "SETUP"
    /\ aiStatus = "ERROR"
    /\ session = "live"
    /\ activeCharacters = <<>>
    /\ playerSecret = NoCharacter

C19_FailedQuestionKeepsTurn ==
    [][(pc.kind = "playerQuestion" /\ pc' # pc /\ gameState' # "PLAYER_TURN_ELIMINATING") =>
          \A after \in {[state |-> gameState', log |-> messages', winner |-> winner',
                         remaining |-> aiRemainingChars', gone |-> playerEliminatedChars',
                         loading |-> isLoading', pc |-> pc']} :
              /\ gameState = "PLAYER_TURN_ASKING"
              /\ after.state = "PLAYER_TURN_ASKING"
              /\ after.log = Append(messages,
                     Message("SYSTEM", <<"Sorry, I had trouble answering. Please try again.">>))
              /\ winner = NULL
              /\ after.winner = NULL
              /\ after.remaining = aiRemainingChars
              /\ after.gone = playerEliminatedChars
              /\ ~after.loading
              /\ after.pc = Idle]_vars

\* after the apology the player has asked again and that call is in flight
C19_Witness ==
    /\ gameState = "PLAYER_TURN_ASKING"
    /\ pc.kind = "playerQuestion"
    /\ Len(messages) >= 3
    /\ messages[Len(messages) - 1] = Message("SYSTEM", TextApology)
    /\ messages[Len(messages)].sender = "PLAYER"

\* C20: at most one model request is in flight in any state, counting the
\* question answering and the question-and-analysis requests of the game
\* handlers and the transcription requests of the voice input.
C20_OneModelCallInFlight ==
    (IF pc.kind \in {"playerQuestion", "aiAttempt"} THEN 1 ELSE 0) + transcribing <= 1

\* C21: a model call wrapped by the timeout settles exactly once: a settled
\* wrapper never changes again; it holds the TimeoutError when its timer fired
\* before the underlying call settled, and the underlying call's own result or
\* error otherwise; the handler applies only what the wrapper of its own
\* request settled with, so a response arriving after the timeout changes
\* nothing of the game.  With a timer that does fire, every wrapped call
\* settles.
C21_TimeoutSettlesOnce ==
    /\ \A i \in 1..MaxCalls :
         (Len(prompts) >= i) ~> (Len(prompts) >= i /\ prompts[i].outer.state # "pending")
    /\ [](\A i \in 1..Len(prompts) :
            \/ prompts[i].outer.state = "pending" /\ prompts[i].inner.state = "pending"
                 /\ prompts[i].timer = "armed"
            \/ prompts[i].outer = TimeoutError /\ prompts[i].timer = "fired"
            \/ prompts[i].outer = prompts[i].inner /\ prompts[i].timer = "cleared"
                 /\ prompts[i].inner.state # "pending" /\ prompts[i].inner.value # "TimeoutError")
    /\ [][\A after \in {[calls |-> prompts', log |-> messages', state |-> gameState',
                         game |-> gameVars', loading |-> isLoading', at |-> pc']} :
            /\ Len(after.calls) >= Len(prompts)
            /\ \A i \in 1..Len(prompts) :
                 /\ prompts[i].outer.state # "pending" => after.calls[i].outer = prompts[i].outer
                 /\ (prompts[i].outer.state # "pending" /\ after.calls[i] # prompts[i])
                      => /\ after.game = gameVars
                         /\ after.state = gameState
                         /\ after.loading = isLoading
                         /\ after.at = pc
            /\ (pc.kind = "playerQuestion" /\ after.at = Idle)
                 => /\ Len(prompts) = modelCalls
                    /\ \E own \in {prompts[modelCalls].outer} :
                         /\ own.state # "pending"
                         /\ own.state = "rejected"
                              => /\ after.log = Append(messages, Message("SYSTEM", TextApology))
                                 /\ after.state = gameState
                         /\ own.state = "fulfilled"
                              => /\ after.log[Len(messages) + 1] =
                                        Message("AI", <<IF own.value = "true" THEN "Yes" ELSE "No">>)
                                 /\ after.state = "PLAYER_TURN_ELIMINATING"]_vars

\* the first request timed out and the player was told so; its response came
\* afterwards while the second request was answered and applied
C21_Witness ==
    /\ Len(prompts) = 2
    /\ prompts[1].timer = "fired"
    /\ prompts[1].outer = TimeoutError
    /\ prompts[1].inner = [state |-> "fulfilled", value |-> "true"]
    /\ prompts[2].outer = [state |-> "fulfilled", value |-> "false"]
    /\ gameState = "PLAYER_TURN_ELIMINATING"
    /\ \E k \in 1..Len(messages) : messages[k] = Message("SYSTEM", TextApology)
    /\ messages[Len(messages) - 1] = Message("AI", <<"No">>)

\* C22: while the player eliminates, a click on a card flips the membership of
\* that card's id in playerEliminatedChars and of no other id, and a second
\* click on the same card gives back the set the first click started from,
\* for every id on the board and every starting set.
C22_ToggleIsInvolution ==
    /\ [](gameState = "PLAYER_TURN_ELIMINATING" =>
            \A id \in Ids(activeCharacters) :
                \A start \in SUBSET Ids(activeCharacters) :
                    \E once \in {ToggleOwnElimination(start, id)} :
                        /\ (id \in once) = (id \notin start)
                        /\ once \ {id} = start \ {id}
                        /\ ToggleOwnElimination(once, id) = start)
    /\ [][\A after \in {playerEliminatedChars'} :
            (gameState = "PLAYER_TURN_ELIMINATING" /\ after # playerEliminatedChars)
                => \E id \in Ids(activeCharacters) :
                       /\ (id \in after) = (id \notin playerEliminatedChars)
                       /\ after \ {id} = playerEliminatedChars \ {id}]_vars

\* a card of the board has been clicked once and is marked as eliminated
C22_Witness ==
    /\ gameState = "PLAYER_TURN_ELIMINATING"
    /\ playerEliminatedChars # {}
    /\ playerEliminatedChars \subseteq Ids(activeCharacters)

\* C23: play again from GAME_OVER clears every field of the session: the state
\* is SETUP, there are no active characters, both secrets are null, the log is
\* empty, winner is null and winReason empty, the AI's candidates and the
\* player's eliminations are empty, lastAIQuestion and lastAIAnalysis are
\* cleared and isAIFinalGuess is false; the gateway is initialized again
\* exactly when its status was ERROR or UNAVAILABLE.
C23_PlayAgainClearsSession ==
    [][\A after \in {[state |-> gameState', game |-> gameVars', status |-> aiStatus']} :
        (gameState = "GAME_OVER" /\ after.state = "SETUP")
            => /\ after.game = <<<<>>, NoCharacter, NoCharacter, <<>>, NULL, <<>>, {}, <<>>,
                                 <<>>, <<>>, FALSE>>
               /\ (after.status = "INITIALIZING") = (aiStatus \in {"ERROR", "UNAVAILABLE"})
               /\ after.status # "INITIALIZING" => after.status = aiStatus]_vars

C25_OperationsOnlyInValidState ==
    [][\A after \in {[state |-> gameState', log |-> messages', winner |-> winner',
                      reason |-> winReason', cands |-> aiRemainingChars']} :
        /\ (Len(after.log) > Len(messages) /\ after.log[Len(messages) + 1].sender = "PLAYER")
               => gameState \in {"PLAYER_TURN_ASKING", "AI_TURN_WAITING_FOR_ANSWER"}
        /\ (Len(after.log) > Len(messages)
              /\ after.log[Len(messages) + 1] = Message("SYSTEM", TextThinking))
               => gameState = "PLAYER_TURN_ELIMINATING"
        /\ (gameState = "GAME_OVER" /\ after.state # "SETUP")
               => /\ after.state = "GAME_OVER"
                  /\ after.log = messages
                  /\ after.winner = winner
                  /\ after.reason = winReason
                  /\ after.cands = aiRemainingChars]_vars

\* C26: when an attempt of the AI's turn succeeds (at least two candidates
\* remain and the analysis marks some but not all of its entries), the
\* question is appended to the log as an AI message and the next state is
\* PLAYER_REVIEWING_AI_ANALYSIS when review mode is enabled and
\* AI_TURN_WAITING_FOR_ANSWER when it is not.
C26_QuestionThenReviewOrAnswer ==
    [][\A after \in {[state |-> gameState', log |-> messages', question |-> lastAIQuestion',
                      analysis |-> lastAIAnalysis']} :
        (pc.kind = "aiAttempt"
           /\ \/ after.state \in {"PLAYER_REVIEWING_AI_ANALYSIS", "AI_TURN_WAITING_FOR_ANSWER"}
              \/ after.analysis # lastAIAnalysis
              \/ after.question # lastAIQuestion)
            => /\ Len(aiRemainingChars) >= 2
               /\ \E positives \in {Cardinality({k \in 1..Len(after.analysis) :
                                                    after.analysis[k].has_feature})} :
                      positives > 0 /\ positives < Len(after.analysis)
               /\ Len(after.log) = Len(messages) + 2
               /\ SubSeq(after.log, 1, Len(messages)) = messages
               /\ after.log[Len(messages) + 1] = Message("AI", after.question)
               /\ after.log[Len(messages) + 2].sender = "SYSTEM"
               /\ isReviewModeEnabled => after.state = "PLAYER_REVIEWING_AI_ANALYSIS"
               /\ ~isReviewModeEnabled => after.state = "AI_TURN_WAITING_FOR_ANSWER"]_vars

\* with review mode on, the AI's question is in the log and the analysis is up
\* for review
C26_Witness ==
    /\ gameState = "PLAYER_REVIEWING_AI_ANALYSIS"
    /\ isReviewModeEnabled
    /\ Len(aiRemainingChars) >= 2
    /\ Len(messages) >= 2
    /\ messages[Len(messages) - 1] = Message("AI", lastAIQuestion)

\* C27: confirming the review in PLAYER_REVIEWING_AI_ANALYSIS moves the game to
\* AI_TURN_WAITING_FOR_ANSWER and changes nothing else: the log, the stored
\* question and analysis, the candidates, the winner and every other field
\* are as before.
C27_ConfirmOnlyMovesOn ==
    [][\A after \in {[state |-> gameState', game |-> gameVars', gateway |-> gatewayVars',
                      loading |-> isLoading', review |-> isReviewModeEnabled', at |-> pc',
                      calls |-> modelCalls']} :
        (gameState = "PLAYER_REVIEWING_AI_ANALYSIS" /\ after.state # gameState)
            => /\ after.state = "AI_TURN_WAITING_FOR_ANSWER"
               /\ after.game = gameVars
               /\ after.gateway = gatewayVars
               /\ after.loading = isLoading
               /\ after.review = isReviewModeEnabled
               /\ after.at = pc
               /\ after.calls = modelCalls]_vars

\* the review has been confirmed: the player is asked to answer while the last
\* message is still the invitation to review
C27_Witness ==
    /\ gameState = "AI_TURN_WAITING_FOR_ANSWER"
    /\ isReviewModeEnabled
    /\ ~isAIFinalGuess
    /\ ~isLoading
    /\ messages[Len(messages)] = Message("SYSTEM", TextReview)
    /\ lastAIAnalysis # <<>>

\* C28: the stored question and the stored analysis always come from one model
\* response: a step changes either of them only by storing the question and
\* the analysis of one settled attempt (or by clearing both), and whenever
\* eliminations are computed after the player's answer, the question being
\* answered is the one the stored analysis was returned with, not a final
\* guess put in its place.
C28_QuestionAndAnalysisMatch ==
    [][\A after \in {[question |-> lastAIQuestion', analysis |-> lastAIAnalysis', at |-> pc']} :
        /\ (after.question # lastAIQuestion \/ after.analysis # lastAIAnalysis)
               => \/ pc.kind = "aiAttempt" /\ after.at = Idle
                  \/ after.question = <<>> /\ after.analysis = <<>>
        /\ (pc.kind = "answerDelay" /\ after.at = Idle) => ~isAIFinalGuess]_vars

\* C29: an initialization that finds no model entry point, or an availability
\* that is not supported, reports UNAVAILABLE and creates no session, and the
\* status then stays UNAVAILABLE until the caller initializes again; an
\* initialization that throws reports ERROR and leaves no session, and none
\* appears until the caller initializes again.
C29_UnavailableAndErrorAreFinal ==
    /\ [](aiStatus \in {"UNAVAILABLE", "ERROR"} => session # "live")
    /\ [][\A after \in {[status |-> aiStatus', session |-> session', id |-> sessionId',
                         model |-> model']} :
            /\ \A outcome \in {"absent", "unsupported"} :
                   (aiStatus = "INITIALIZING" /\ ~(model /\ session # "none")
                      /\ InitializeAI(outcome))
                       => /\ after.status = "UNAVAILABLE"
                          /\ after.session = session
                          /\ after.id = sessionId
            /\ (aiStatus = "INITIALIZING" /\ ~(model /\ session # "none")
                  /\ InitializeAI("error"))
                   => /\ after.status = "ERROR"
                      /\ after.session = "none"
                      /\ ~after.model
            /\ aiStatus \in {"UNAVAILABLE", "ERROR"}
                   => /\ after.status \in {aiStatus, "INITIALIZING"}
                      /\ after.session = session
                      /\ after.id = sessionId]_vars

\* an initialization has thrown: the gateway reports ERROR and holds neither
\* the model entry point nor a session
C29_Witness ==
    /\ aiStatus = "ERROR"
    /\ ~model
    /\ session = "none"

\* C30: while the model downloads, every value handed to the progress callback
\* lies between 0 and 100 and is not smaller than the value handed over before
\* it, whatever loaded and total the download events carry.
C30_ProgressBoundedAndMonotone ==
    \A k \in 1..Len(progressReports) :
        /\ progressReports[k] >= 0
        /\ progressReports[k] <= 100
        /\ k > 1 => progressReports[k] >= progressReports[k - 1]

C32_RetryReasonFollowsFailure ==
    [][\A after \in {[at |-> pc']} :
        /\ (pc.kind # "aiAttempt" /\ after.at.kind = "aiAttempt")
               => /\ after.at.attempt = 1
                  /\ after.at.retryReason = <<>>
        /\ (pc.kind = "aiAttempt" /\ after.at.kind = "aiAttempt" /\ after.at # pc)
               => /\ after.at.attempt = pc.attempt + 1
                  /\ after.at.retryReason # <<>>
                  /\ \A message \in ThrownMessages :
                         AIAttemptFails(message) =>
                             IF message = "AI generated a non-discriminatory question."
                             THEN after.at.retryReason = RetryNonDiscriminating
                             ELSE /\ Len(after.at.retryReason) = 3
                                  /\ after.at.retryReason[2] = message]_vars

\* the third attempt of a turn is under way: the first one failed, and the
\* second one timed out
C32_Witness ==
    /\ pc.kind = "aiAttempt"
    /\ pc.attempt = 3
    /\ pc.retryReason = RetryModelError(ErrorTimedOut)
    /\ gameState = "AI_TURN"

\* C33: isLoading is true for as long as an asynchronous step of the engine is
\* outstanding (the answer to a player question, the AI's attempts, the delay
\* before the reconciliation, the start of a game) and false whenever none is,
\* so that no state that waits for the player has isLoading true.
C33_LoadingCoversEveryStep ==
    /\ pc # Idle => isLoading
    /\ pc = Idle => ~isLoading

\* C34: in games where every stored analysis has an entry for the player's
\* secret and the player answers Yes exactly when that entry has the feature,
\* the player's secret is among the AI's remaining candidates in every state
\* of the game, and a final guess of the AI asks for the player's secret.
C34_SecretStaysCandidate ==
    playerSecret # NoCharacter =>
        /\ \E i \in 1..Len(aiRemainingChars) : aiRemainingChars[i] = playerSecret
        /\ (isAIFinalGuess /\ gameState = "AI_TURN_WAITING_FOR_ANSWER") =>
               /\ aiRemainingChars = <<playerSecret>>
               /\ lastAIQuestion = <<"I","s"," ","y","o","u","r"," ","c","h","a","r","a","c","t","e","r"," ">>
                                       \o playerSecret.name \o <<"?">>

\* on the board of three, two candidates went after one honest answer and the
\* AI asks for the player's secret
C34_Witness ==
    /\ gameState = "AI_TURN_WAITING_FOR_ANSWER"
    /\ isAIFinalGuess
    /\ activeCharacters = RosterTrio
    /\ aiRemainingChars = <<playerSecret>>
    /\ HasEntryFor(lastAIAnalysis, playerSecret.id)

\* C35: when the stored analysis has exactly one entry per remaining candidate,
\* the reconciliation of either answer removes at least one candidate and
\* leaves at least one, the safety stop does not fire, and the turn goes back
\* to the player; so, up to the AI's final guess, the answers given and the
\* candidates left never add up to more than the n characters of the board,
\* which leaves room for at most n-1 answers.
C35_EveryAnswerShrinks ==
    /\ [][\A after \in {[remaining |-> aiRemainingChars', log |-> messages',
                         state |-> gameState', winner |-> winner']} :
            (pc.kind = "answerDelay"
                /\ OneEntryPerCandidate(lastAIAnalysis, aiRemainingChars)
                /\ after.log # messages)
            => /\ Len(after.remaining) >= 1
               /\ Len(after.remaining) < Len(aiRemainingChars)
               /\ Ids(after.remaining) \subseteq Ids(aiRemainingChars)
               /\ after.log[Len(after.log)].text # TextConfused
               /\ after.state = "PLAYER_TURN_ASKING"
               /\ after.winner = winner]_vars
    /\ []((gameState \notin {"SETUP", "CUSTOM_SETUP"}
              /\ ~FinalGuessInLog(messages, activeCharacters))
          => /\ Len(aiRemainingChars) >= 1
             /\ AnswersInLog(messages) + Len(aiRemainingChars)
                    <= Len(activeCharacters) + (IF pc.kind = "answerDelay" THEN 1 ELSE 0)
             /\ AnswersInLog(messages) <= Len(activeCharacters) - 1)

\* on the board of two the AI makes its final guess after one answered question
C35_Witness ==
    /\ gameState = "AI_TURN_WAITING_FOR_ANSWER"
    /\ isAIFinalGuess
    /\ Len(activeCharacters) = 2
    /\ AnswersInLog(messages) = 1
    /\ OneEntryPerCandidate(lastAIAnalysis, activeCharacters)

\* C36: every AI turn ends. The handler of the turn issues one model call per
\* attempt and at most three of them; it is started only from the state the
\* end of the player's turn leaves, and when it ends the state is no longer
\* AI_TURN, so it is not started again within the turn; and when every call
\* settles, a turn that has begun leaves AI_TURN for the review, the player's
\* answer, the player's turn or the end of the game.
C36_AITurnTerminates ==
    /\ [](pc.kind = "aiAttempt" => (gameState = "AI_TURN" /\ pc.attempt \in 1..3))
    /\ [][\A after \in {[state |-> gameState', at |-> pc', calls |-> modelCalls']} :
            /\ (gameState = "AI_TURN" /\ after.calls # modelCalls)
                   => /\ after.calls = modelCalls + 1
                      /\ after.at.kind = "aiAttempt"
                      /\ after.at.attempt = (IF pc.kind = "aiAttempt" THEN pc.attempt + 1 ELSE 1)
            /\ (gameState = "AI_TURN" /\ after.state # "AI_TURN")
                   => /\ after.state \in {"PLAYER_REVIEWING_AI_ANALYSIS",
                                          "AI_TURN_WAITING_FOR_ANSWER",
                                          "PLAYER_TURN_ASKING", "GAME_OVER"}
                      /\ after.at = Idle
            /\ (pc.kind = "aiAttempt" /\ after.at.kind # "aiAttempt")
                   => after.state # "AI_TURN"
            /\ (gameState # "AI_TURN" /\ after.state = "AI_TURN")
                   => (gameState = "PLAYER_TURN_ELIMINATING" /\ after.at = Idle)]_vars
    /\ (gameState = "AI_TURN" /\ pc = Idle /\ Len(messages) < MaxLog
            /\ modelCalls + 3 <= MaxCalls)
           ~> (gameState \in {"PLAYER_REVIEWING_AI_ANALYSIS", "AI_TURN_WAITING_FOR_ANSWER",
                              "PLAYER_TURN_ASKING", "GAME_OVER"})

\* the third attempt of a turn has failed and the turn went to the player
C36_Witness ==
    /\ gameState = "PLAYER_TURN_ASKING"
    /\ pc = Idle
    /\ Len(messages) > 0
    /\ messages[Len(messages)] = Message("SYSTEM", TextConcede)
    /\ modelCalls = 4

\* C37: startGame draws for rosters of every size; with two or more characters
\* the loop that redraws the AI's index is left, under a fair generator, and
\* the game starts with two different secrets; with fewer than two characters
\* both indices are 0, the loop's condition stays true and no step leaves it.
C37_DrawEndsFromTwoOn ==
    /\ []((pc.kind = "draw" /\ Len(pc.characterSet) < 2)
              => (pc.playerIndex = 0 /\ pc.aiIndex = pc.playerIndex))
    /\ [][~(pc.kind = "draw" /\ Len(pc.characterSet) < 2)]_vars
    /\ [][(pc.kind = "draw" /\ pc' # pc /\ pc'.kind # "draw")
              => (pc.aiIndex # pc.playerIndex /\ playerSecret' # aiSecret')]_vars
    /\ (pc.kind = "draw" /\ Len(pc.characterSet) >= 2)
           ~> (pc = Idle /\ gameState = "PLAYER_TURN_ASKING")

\* startGame took a roster of one character and is in its loop
C37_Witness ==
    /\ pc.kind = "draw"
    /\ Len(pc.characterSet) = 1
    /\ pc.aiIndex = pc.playerIndex

\* C38: whenever the status is READY, the session the gateway holds has been
\* created and has not been destroyed.
C38_ReadyMeansLiveSession ==
    aiStatus = "READY" => session = "live"

====
